---------------------------- MODULE Spec2Model ----------------------------
(***************************************************************************)
(* A model of terminal-temps (src/src/index.ts): the normalisation of a    *)
(* Dark Sky payload into a Forecast and the rendering of that Forecast as  *)
(* an ASCII report, decorated for a terminal (tty) or for a browser (html).*)
(* The webtask entrypoint answers one request: it checks the zipcode,     *)
(* chooses the format, obtains the payload from the recorded forecast or  *)
(* from SmartyStreets and Dark Sky, and answers 200 with the report or    *)
(* 500 with the message of the error.                                      *)
(*                                                                         *)
(* Text.  A JavaScript string is a sequence of characters; a character is  *)
(* a TLA+ string of length one, except ESC, which stands for the single    *)
(* character \x1b, and "\n", the line feed.                                *)
(*                                                                         *)
(* Numbers.  A temperature is a rational k / TempUnit and a probability a  *)
(* rational k / ProbUnit; the model stores the numerator k.  The results   *)
(* of Math.max, Math.min and Math.round are JavaScript numbers, which may  *)
(* be NaN or an infinity: they are records [kind, val].                    *)
(***************************************************************************)
EXTENDS Integers, Sequences, FiniteSets, TLC

VARIABLES
    payload,             \* the upstream (Dark Sky) payload handed to the normaliser
    format,              \* the Format of this render call
    forecast,            \* the canonical Forecast
    timeOffsets,         \* result of renderTimeOffsets
    temperatureGraph,    \* result of renderTemperatureGraph
    precipitationGraph,  \* result of renderPrecipitationGraph
    output,              \* result of render
    pc,                  \* the step the request is at
    src,                 \* a text handed to the decoration functions
    text,                \* that text as decorated so far
    applied,             \* the decorations applied to it, innermost first
    request,             \* the inbound request: its zipcode parameter and Accept header
    step,                \* the place the handler has reached
    error,               \* the error thrown or rejected while handling the request
    response,            \* the writeHead and end calls made on the response
    calls,               \* the upstream calls of the request, in order, as settled
    fixture,             \* the recorded forecast, an object shared by all requests
    parked,              \* the requests that wait for an upstream call meanwhile
    fetching             \* one call of fetch: the events seen and its promise

\* The variables of the webtask entrypoint
handlerVars == <<request, step, error, response, calls>>

\* The variables of the module and of the event loop around one request
serverVars == <<fixture, parked, fetching>>

vars == <<payload, format, forecast, timeOffsets, temperatureGraph,
          precipitationGraph, output, pc, src, text, applied, handlerVars,
          serverVars>>

---------------------------------------------------------------------------
(* Bounds of the model *)

\* Longest upstream hourly series (the normaliser keeps the first 25).
MaxUpstream == 27
\* Temperatures are multiples of 1/TempUnit degrees.
TempUnit == 2
\* Probabilities are multiples of 1/ProbUnit.
ProbUnit == 100
\* Deepest nesting of decorations applied to one text.
MaxDecor == 2
\* The requests that may wait for an upstream call while another is handled
MaxParked == 1
\* The longest body an upstream service sends, in characters
MaxBody == 4

---------------------------------------------------------------------------
(* Characters and strings *)

ESC == "ESC"
LF == "\n"

Min2(a, b) == IF a <= b THEN a ELSE b
Max2(a, b) == IF a >= b THEN a ELSE b

\* String.prototype.repeat for a one-character string
Repeat(c, n) == [k \in 1..n |-> c]

\* String.prototype.slice(start, end)
Slice(s, start, end) ==
    LET len  == Len(s)
        from == IF start < 0 THEN Max2(len + start, 0) ELSE Min2(start, len)
        to   == IF end < 0 THEN Max2(len + end, 0) ELSE Min2(end, len)
    IN  SubSeq(s, from + 1, to)

\* String.prototype.slice(start)
SliceFrom(s, start) == Slice(s, start, Len(s))

\* Array.prototype.join
RECURSIVE Join(_, _)
Join(parts, sep) ==
    IF parts = <<>> THEN <<>>
    ELSE IF Len(parts) = 1 THEN parts[1]
    ELSE parts[1] \o sep \o Join(Tail(parts), sep)

\* The concatenation of the strings of a sequence: join('')
Concat(parts) == Join(parts, <<>>)

Digit(d) == <<"0", "1", "2", "3", "4", "5", "6", "7", "8", "9">>[d + 1]

RECURSIVE NatToChars(_)
NatToChars(n) ==
    IF n < 10 THEN <<Digit(n)>>
    ELSE NatToChars(n \div 10) \o <<Digit(n % 10)>>

IntToChars(n) == IF n < 0 THEN <<"-">> \o NatToChars(-n) ELSE NatToChars(n)

---------------------------------------------------------------------------
(* JavaScript numbers *)

Num(k) == [kind |-> "finite", val |-> k]
NaN    == [kind |-> "NaN", val |-> 0]
PosInf == [kind |-> "Infinity", val |-> 0]
NegInf == [kind |-> "-Infinity", val |-> 0]

\* x >= i for a JavaScript number x and an integer i
GE(x, i) ==
    CASE x.kind = "finite"    -> x.val >= i
      [] x.kind = "Infinity"  -> TRUE
      [] OTHER                -> FALSE

\* x === i for a JavaScript number x and an integer i
StrictEq(x, i) == x.kind = "finite" /\ x.val = i

\* Math.round(a / b) for integers a and b > 0: the nearest integer, a half
\* rounded towards +Infinity.  The quotient is exact here; for the inputs of
\* this model the double-precision quotient of the code rounds to the same integer.
RoundDiv(a, b) == (2 * a + b) \div (2 * b)

\* `${x}` for a JavaScript number x that holds an integer, a NaN or an infinity
NumberToChars(x) ==
    CASE x.kind = "finite"    -> IntToChars(x.val)
      [] x.kind = "NaN"       -> <<"N", "a", "N">>
      [] x.kind = "Infinity"  -> <<"I", "n", "f", "i", "n", "i", "t", "y">>
      [] OTHER                -> <<"-", "I", "n", "f", "i", "n", "i", "t", "y">>

RECURSIVE MaxOf(_)
MaxOf(xs) == IF Len(xs) = 1 THEN xs[1] ELSE Max2(xs[1], MaxOf(Tail(xs)))

RECURSIVE MinOf(_)
MinOf(xs) == IF Len(xs) = 1 THEN xs[1] ELSE Min2(xs[1], MinOf(Tail(xs)))

\* Math.max(...xs): -Infinity for no arguments
MathMax(xs) == IF xs = <<>> THEN NegInf ELSE Num(MaxOf(xs))

\* Math.min(...xs): Infinity for no arguments
MathMin(xs) == IF xs = <<>> THEN PosInf ELSE Num(MinOf(xs))

---------------------------------------------------------------------------
(* The data formats *)

Html == "html"
Tty  == "tty"
Format == {Html, Tty}

\* An array element of render: a string or undefined
Str(t) == [defined |-> TRUE, text |-> t]
Undefined == [defined |-> FALSE, text |-> <<>>]

\* The Forecast before the normaliser has produced one
NoForecast ==
    [alerts |-> <<>>, temperature |-> 0, feels_like |-> 0,
     current_summary |-> <<>>, future_summary |-> <<>>, hourly |-> <<>>]

\* url.query.zipcode: undefined, a string, or an array of strings
NoZipcode == [kind |-> "undefined", value |-> <<>>]
OneZipcode(z) == [kind |-> "string", value |-> z]
ManyZipcodes(zs) == [kind |-> "array", value |-> zs]

\* request.headers.accept: undefined or a string
NoAccept == [defined |-> FALSE, value |-> <<>>]
Accept(a) == [defined |-> TRUE, value |-> a]

\* The request before one has arrived
NoRequest == [zipcode |-> NoZipcode, accept |-> NoAccept]

\* No error thrown; an Error with a message
NoError == [thrown |-> FALSE, message |-> <<>>]
Error(message) == [thrown |-> TRUE, message |-> message]

\* A response on which nothing was called yet: the status codes given to
\* writeHead and the bodies given to end, in order
NoResponse == [statusCodes |-> <<>>, ended |-> <<>>]

---------------------------------------------------------------------------
(* Forecast Normalizer *)

\* transformDarkSkyForecast without the alerts
transformDarkSkyForecast_NoAlerts(data) ==
    [alerts |-> <<>>,
     temperature     |-> data.currently.temperature,
     feels_like      |-> data.currently.apparentTemperature,
     current_summary |-> data.currently.summary,
     future_summary  |-> data.hourly.summary,
     hourly |->
        LET first == Slice(data.hourly.data, 0, 25)
        IN  [k \in 1..Len(first) |->
                [temperature |-> first[k].temperature,
                 feels_like  |-> first[k].apparentTemperature,
                 precipitation_probability |-> first[k].precipProbability]]]

\* transformDarkSkyForecast keeping 24 hours and the measured temperature
transformDarkSkyForecast_Slice24(data) ==
    [alerts |->
        IF data.alerts.defined
        THEN [k \in 1..Len(data.alerts.items) |-> data.alerts.items[k].title]
        ELSE <<>>,
     temperature     |-> data.currently.temperature,
     feels_like      |-> data.currently.apparentTemperature,
     current_summary |-> data.currently.summary,
     future_summary  |-> data.hourly.summary,
     hourly |->
        LET first == Slice(data.hourly.data, 0, 24)
        IN  [k \in 1..Len(first) |->
                [temperature |-> first[k].temperature,
                 feels_like  |-> first[k].temperature,
                 precipitation_probability |-> first[k].precipProbability]]]

transformDarkSkyForecast(data) ==
    [alerts |->
        IF data.alerts.defined
        THEN [k \in 1..Len(data.alerts.items) |-> data.alerts.items[k].title]
        ELSE <<>>,
     temperature     |-> data.currently.temperature,
     feels_like      |-> data.currently.apparentTemperature,
     current_summary |-> data.currently.summary,
     future_summary  |-> data.hourly.summary,
     hourly |->
        LET first == Slice(data.hourly.data, 0, 25)
        IN  [k \in 1..Len(first) |->
                [temperature |-> first[k].temperature,
                 feels_like  |-> first[k].apparentTemperature,
                 precipitation_probability |-> first[k].precipProbability]]]

---------------------------------------------------------------------------
(* Format Strategy *)

bold(s, f) ==
    IF f = Html
    THEN <<"<", "s", "t", "r", "o", "n", "g", ">">> \o s
            \o <<"<", "/", "s", "t", "r", "o", "n", "g", ">">>
    ELSE <<ESC, "[", "1", "m">> \o s \o <<ESC, "[", "0", "m">>

\* cyan without the reset sequence after the text on a terminal
cyan_NoReset(s, f) ==
    IF f = Html
    THEN <<"<", "s", "p", "a", "n", " ", "s", "t", "y", "l", "e", "=", "\"",
           "c", "o", "l", "o", "r", ":", " ", "t", "e", "a", "l", "\"", ">">>
            \o s \o <<"<", "/", "s", "p", "a", "n", ">">>
    ELSE <<ESC, "[", "3", "6", "m">> \o s

cyan(s, f) ==
    IF f = Html
    THEN <<"<", "s", "p", "a", "n", " ", "s", "t", "y", "l", "e", "=", "\"",
           "c", "o", "l", "o", "r", ":", " ", "t", "e", "a", "l", "\"", ">">>
            \o s \o <<"<", "/", "s", "p", "a", "n", ">">>
    ELSE <<ESC, "[", "3", "6", "m">> \o s \o <<ESC, "[", "0", "m">>

---------------------------------------------------------------------------
(* The graphs *)

PREFIX == Repeat(" ", 9)
PREFIX_LEN == Len(PREFIX)

Filled == <<"*", "*">>
Blank  == <<" ", " ">>

\* scaledXs.map(x => x >= i ? '**' : '  ').join('')
Markers(scaled, i) ==
    Concat([k \in 1..Len(scaled) |-> IF GE(scaled[k], i) THEN Filled ELSE Blank])

\* graphHeight of renderPrecipitationGraph
precipGraphHeight == 5

\* scalePrecipitation with Math.floor in place of Math.round
scalePrecipitation_Floor(p) ==
    IF p.kind = "finite"
    THEN Num((p.val * 5) \div ProbUnit)
    ELSE p

\* Math.round(precipitationProbability * graphHeight)
scalePrecipitation(p) ==
    IF p.kind = "finite"
    THEN Num(RoundDiv(p.val * precipGraphHeight, ProbUnit))
    ELSE p

\* PrecipitationRow with the markers left outside the cyan decoration
PrecipitationRow_PlainMarkers(fc, f, i) ==
    LET precipProbabilities ==
            [k \in 1..Len(fc.hourly) |-> fc.hourly[k].precipitation_probability]
        scaledPrecips ==
            [k \in 1..Len(fc.hourly) |-> scalePrecipitation(Num(precipProbabilities[k]))]
        maxPrecipProbability == MathMax(precipProbabilities)
        prefix ==
            IF StrictEq(scalePrecipitation(maxPrecipProbability), i)
            THEN cyan(bold(SliceFrom(
                     <<" ", " ", " ", " ", "R", " ">>
                       \o IntToChars(RoundDiv(maxPrecipProbability.val * 100, ProbUnit))
                       \o <<"%", " ", " ">>,
                     -PREFIX_LEN), f), f)
            ELSE PREFIX
    IN  prefix \o Markers(scaledPrecips, i)

\* The row i (1..graphHeight) pushed by the loop of renderPrecipitationGraph
PrecipitationRow(fc, f, i) ==
    LET precipProbabilities ==
            [k \in 1..Len(fc.hourly) |-> fc.hourly[k].precipitation_probability]
        scaledPrecips ==
            [k \in 1..Len(fc.hourly) |-> scalePrecipitation(Num(precipProbabilities[k]))]
        maxPrecipProbability == MathMax(precipProbabilities)
        prefix ==
            IF StrictEq(scalePrecipitation(maxPrecipProbability), i)
            THEN cyan(bold(SliceFrom(
                     <<" ", " ", " ", " ", "R", " ">>
                       \o IntToChars(RoundDiv(maxPrecipProbability.val * 100, ProbUnit))
                       \o <<"%", " ", " ">>,
                     -PREFIX_LEN), f), f)
            ELSE PREFIX
    IN  prefix \o cyan(Markers(scaledPrecips, i), f)

renderPrecipitationGraph(fc, f) ==
    LET maxPrecipProbability ==
            MathMax([k \in 1..Len(fc.hourly) |-> fc.hourly[k].precipitation_probability])
    IN  IF StrictEq(maxPrecipProbability, 0) THEN <<>>
        ELSE Join([i \in 1..precipGraphHeight |-> PrecipitationRow(fc, f, i)], <<LF>>)

\* graphHeight of renderTemperatureGraph
tempGraphHeight == 7

\* scaleTemperature with Math.floor in place of Math.round
scaleTemperature_Floor(temp, minTemperature, maxTemperature) ==
    IF maxTemperature.val = minTemperature.val
    THEN NaN
    ELSE Num(((temp - minTemperature.val) * 7)
                \div (maxTemperature.val - minTemperature.val))

\* scaleTemperature filling every column of a uniform series
scaleTemperature_FullWhenFlat(temp, minTemperature, maxTemperature) ==
    IF maxTemperature.val = minTemperature.val
    THEN Num(7)
    ELSE Num(RoundDiv((temp - minTemperature.val) * 7,
                      maxTemperature.val - minTemperature.val))

\* Math.round((temp - minTemperature) / (maxTemperature - minTemperature) * graphHeight)
\* It is called only for the temperatures of a non-empty series, so both bounds
\* are finite; 0 / 0 is NaN and Math.round(NaN) is NaN.
scaleTemperature(temp, minTemperature, maxTemperature) ==
    IF maxTemperature.val = minTemperature.val
    THEN NaN
    ELSE Num(RoundDiv((temp - minTemperature.val) * tempGraphHeight,
                      maxTemperature.val - minTemperature.val))

\* Math.round(x) for x = x.val / unit
MathRound(x, unit) == IF x.kind = "finite" THEN Num(RoundDiv(x.val, unit)) ELSE x

Temps(fc) == [k \in 1..Len(fc.hourly) |-> fc.hourly[k].feels_like]

ScaledTemps(fc) ==
    [k \in 1..Len(fc.hourly) |->
        scaleTemperature(Temps(fc)[k], MathMin(Temps(fc)), MathMax(Temps(fc)))]

\* TemperatureRow with the marker test t === i in place of t >= i
TemperatureRow_OnlyTop(fc, f, i) ==
    LET prefix ==
            IF i = tempGraphHeight
            THEN bold(SliceFrom(
                     <<" ", " ", " ", " ", "H", " ">>
                       \o NumberToChars(MathRound(MathMax(Temps(fc)), TempUnit))
                       \o <<"F", " ", " ">>,
                     -PREFIX_LEN), f)
            ELSE PREFIX
    IN  prefix \o Concat([k \in 1..Len(ScaledTemps(fc)) |->
                            IF StrictEq(ScaledTemps(fc)[k], i) THEN Filled ELSE Blank])

\* The row i (graphHeight down to 1) pushed by the loop of renderTemperatureGraph
TemperatureRow(fc, f, i) ==
    LET prefix ==
            IF i = tempGraphHeight
            THEN bold(SliceFrom(
                     <<" ", " ", " ", " ", "H", " ">>
                       \o NumberToChars(MathRound(MathMax(Temps(fc)), TempUnit))
                       \o <<"F", " ", " ">>,
                     -PREFIX_LEN), f)
            ELSE PREFIX
    IN  prefix \o Markers(ScaledTemps(fc), i)

\* TemperatureBaseline with '*'.repeat in place of '**'.repeat
TemperatureBaseline_Narrow(fc, f) ==
    bold(SliceFrom(
            <<" ", " ", " ", " ", "L", " ">>
              \o NumberToChars(MathRound(MathMin(Temps(fc)), TempUnit))
              \o <<"F", " ", " ">>,
            -PREFIX_LEN), f)
      \o Concat([k \in 1..Len(ScaledTemps(fc)) |-> <<"*">>])

\* The row pushed after the loop: the low label and '**'.repeat(scaledTemps.length)
TemperatureBaseline(fc, f) ==
    bold(SliceFrom(
            <<" ", " ", " ", " ", "L", " ">>
              \o NumberToChars(MathRound(MathMin(Temps(fc)), TempUnit))
              \o <<"F", " ", " ">>,
            -PREFIX_LEN), f)
      \o Concat([k \in 1..Len(ScaledTemps(fc)) |-> Filled])

\* renderTemperatureGraph without the row pushed after the loop
renderTemperatureGraph_NoBaseline(fc, f) ==
    Join([r \in 1..tempGraphHeight |-> TemperatureRow(fc, f, tempGraphHeight + 1 - r)],
         <<LF>>)

renderTemperatureGraph(fc, f) ==
    Join([r \in 1..tempGraphHeight |-> TemperatureRow(fc, f, tempGraphHeight + 1 - r)]
            \o <<TemperatureBaseline(fc, f)>>,
         <<LF>>)

---------------------------------------------------------------------------
(* Time Axis Renderer *)

\* The for loop of renderTimeOffsets from cursor i with the text built so far
RECURSIVE TimeOffsetsLoop(_, _, _, _)
TimeOffsetsLoop(i, result, n, f) ==
    IF ~(i < n) THEN result
    ELSE IF i = n - 1
         THEN result \o bold(IntToChars(n - 1) \o <<"h">>, f)
    ELSE IF i % 6 = 0
         THEN TimeOffsetsLoop(i + 2,
                  result \o bold(Slice(IntToChars(i) \o <<"h", " ", " ", " ">>, 0, 4), f),
                  n, f)
    ELSE TimeOffsetsLoop(i + 1, result \o <<" ", " ">>, n, f)

\* The loop of renderTimeOffsets without the extra i += 1 after a label
RECURSIVE TimeOffsetsLoop_NoSkip(_, _, _, _)
TimeOffsetsLoop_NoSkip(i, result, n, f) ==
    IF ~(i < n) THEN result
    ELSE IF i = n - 1
         THEN result \o bold(IntToChars(n - 1) \o <<"h">>, f)
    ELSE IF i % 6 = 0
         THEN TimeOffsetsLoop_NoSkip(i + 1,
                  result \o bold(Slice(IntToChars(i) \o <<"h", " ", " ", " ">>, 0, 4), f),
                  n, f)
    ELSE TimeOffsetsLoop_NoSkip(i + 1, result \o <<" ", " ">>, n, f)

renderTimeOffsets_NoSkip(fc, f) == TimeOffsetsLoop_NoSkip(0, PREFIX, Len(fc.hourly), f)

\* The loop of renderTimeOffsets with the labels cut to 3 characters
RECURSIVE TimeOffsetsLoop_Narrow(_, _, _, _)
TimeOffsetsLoop_Narrow(i, result, n, f) ==
    IF ~(i < n) THEN result
    ELSE IF i = n - 1
         THEN result \o bold(IntToChars(n - 1) \o <<"h">>, f)
    ELSE IF i % 6 = 0
         THEN TimeOffsetsLoop_Narrow(i + 2,
                  result \o bold(Slice(IntToChars(i) \o <<"h", " ", " ", " ">>, 0, 3), f),
                  n, f)
    ELSE TimeOffsetsLoop_Narrow(i + 1, result \o <<" ", " ">>, n, f)

renderTimeOffsets_Narrow(fc, f) == TimeOffsetsLoop_Narrow(0, PREFIX, Len(fc.hourly), f)

renderTimeOffsets(fc, f) == TimeOffsetsLoop(0, PREFIX, Len(fc.hourly), f)

---------------------------------------------------------------------------
(* Report Composer *)

\* ReportParts showing the alerts to a browser only
ReportParts_AlertsHtmlOnly(fc, f, axis, temperature, precipitation) ==
    << IF f = Html
       THEN Str(<<"<", "h", "t", "m", "l", ">", "<", "p", "r", "e", ">">>)
       ELSE Str(<<LF>>),
       IF f = Html /\ Len(fc.alerts) # 0
       THEN Str(bold(<<"A", "l", "e", "r", "t", "s", ":", " ", " ">>
                        \o Join(fc.alerts, <<",", " ">>), f))
       ELSE Undefined,
       Str(bold(<<"N", "o", "w", ":", " ", " ", " ", " ", " ">>
                  \o IntToChars(RoundDiv(fc.feels_like, TempUnit))
                  \o <<"F", ",", " ">> \o fc.current_summary, f)),
       Str(bold(<<"L", "a", "t", "e", "r", ":", " ", " ", " ">>
                  \o fc.future_summary \o <<LF>>, f)),
       Str(axis),
       Str(temperature),
       Str(precipitation),
       IF f = Html
       THEN Str(<<"<", "/", "p", "r", "e", ">", "<", "/", "h", "t", "m", "l", ">">>)
       ELSE Undefined >>

\* The array literal of render, given the three rendered sections
ReportParts(fc, f, axis, temperature, precipitation) ==
    << IF f = Html
       THEN Str(<<"<", "h", "t", "m", "l", ">", "<", "p", "r", "e", ">">>)
       ELSE Str(<<LF>>),
       IF Len(fc.alerts) # 0
       THEN Str(bold(<<"A", "l", "e", "r", "t", "s", ":", " ", " ">>
                        \o Join(fc.alerts, <<",", " ">>), f))
       ELSE Undefined,
       Str(bold(<<"N", "o", "w", ":", " ", " ", " ", " ", " ">>
                  \o IntToChars(RoundDiv(fc.feels_like, TempUnit))
                  \o <<"F", ",", " ">> \o fc.current_summary, f)),
       Str(bold(<<"L", "a", "t", "e", "r", ":", " ", " ", " ">>
                  \o fc.future_summary \o <<LF>>, f)),
       Str(axis),
       Str(temperature),
       Str(precipitation),
       IF f = Html
       THEN Str(<<"<", "/", "p", "r", "e", ">", "<", "/", "h", "t", "m", "l", ">">>)
       ELSE Undefined >>

\* v => v: undefined and the empty string are falsy
Truthy(v) == v.defined /\ v.text # <<>>

\* Compose without the filter: join prints undefined as the empty string
Compose_NoFilter(parts) ==
    Join([k \in 1..Len(parts) |-> parts[k].text], <<LF>>) \o <<LF, LF>>

\* .filter(v => v).join('\n') + '\n\n'
Compose(parts) ==
    Join([k \in 1..Len(SelectSeq(parts, Truthy)) |-> SelectSeq(parts, Truthy)[k].text],
         <<LF>>) \o <<LF, LF>>

render(fc, f) ==
    Compose(ReportParts(fc, f, renderTimeOffsets(fc, f),
                        renderTemperatureGraph(fc, f),
                        renderPrecipitationGraph(fc, f)))

---------------------------------------------------------------------------
(* The inputs *)

\* One upstream hour: temperature t / TempUnit, apparent temperature
\* a / TempUnit, precipitation probability p / ProbUnit
Hour(t, a, p) == [temperature |-> t, apparentTemperature |-> a, precipProbability |-> p]

\* Short hourly series; an upstream series repeats one of them to its length.
SampleSeries ==
    { \* 30F, 40F, 50F and no rain
      << Hour(31 * TempUnit, 30 * TempUnit, 0), Hour(42 * TempUnit, 40 * TempUnit, 0),
         Hour(50 * TempUnit, 50 * TempUnit, 0) >>,
      \* one temperature throughout, a small chance of rain
      << Hour(47 * TempUnit, 44 * TempUnit + 1, ProbUnit \div 20) >>,
      \* frost and certain rain
      << Hour(0, -3 * TempUnit, ProbUnit), Hour(12 * TempUnit, 12 * TempUnit, ProbUnit \div 2),
         Hour(8 * TempUnit, 7 * TempUnit + 1, 0) >>,
      \* close temperatures, a modest chance of rain
      << Hour(30 * TempUnit, 30 * TempUnit, ProbUnit \div 10),
         Hour(31 * TempUnit, 31 * TempUnit, (3 * ProbUnit) \div 10),
         Hour(37 * TempUnit, 37 * TempUnit, (29 * ProbUnit) \div 100),
         Hour(30 * TempUnit, 30 * TempUnit + 1, 0) >>,
      \* three digits, rain likely
      << Hour(99 * TempUnit, 99 * TempUnit + 1, (7 * ProbUnit) \div 10),
         Hour(101 * TempUnit, 100 * TempUnit, (9 * ProbUnit) \div 10) >> }

\* The series of m hours that repeats sample
Cycle(sample, m) == [k \in 1..m |-> sample[((k - 1) % Len(sample)) + 1]]

UpstreamSeries == { Cycle(sample, m) : sample \in SampleSeries, m \in 0..MaxUpstream }

FloodWatch == [title |-> <<"F", "l", "o", "o", "d", " ", "W", "a", "t", "c", "h">>]
WindAdvisory ==
    [title |-> <<"W", "i", "n", "d", " ", "A", "d", "v", "i", "s", "o", "r", "y">>]

Overcast ==
    [temperature |-> 47 * TempUnit, apparentTemperature |-> 44 * TempUnit + 1,
     summary |-> <<"O", "v", "e", "r", "c", "a", "s", "t">>]
Freezing ==
    [temperature |-> 0, apparentTemperature |-> -(3 * TempUnit) - 1, summary |-> <<>>]
RainTonight == <<"R", "a", "i", "n", " ", "t", "o", "n", "i", "g", "h", "t", ".">>
Dry == <<"D", "r", "y">>

\* data.alerts (absent, empty, one alert, two alerts) together with
\* data.currently and data.hourly.summary
UpstreamEnvelopes ==
    { [alerts |-> [defined |-> FALSE, items |-> <<>>],
       currently |-> Overcast, later |-> RainTonight],
      [alerts |-> [defined |-> TRUE, items |-> <<>>],
       currently |-> Freezing, later |-> Dry],
      [alerts |-> [defined |-> TRUE, items |-> <<FloodWatch>>],
       currently |-> Overcast, later |-> Dry],
      [alerts |-> [defined |-> TRUE, items |-> <<FloodWatch, WindAdvisory>>],
       currently |-> Freezing, later |-> RainTonight] }

\* A payload has the same fields whatever it holds: the blocks it lacks are
\* named in missing, and nothing is read from them
Payloads ==
    { [alerts |-> e.alerts, currently |-> e.currently,
       hourly |-> [summary |-> e.later, data |-> d], missing |-> {}] :
        e \in UpstreamEnvelopes, d \in UpstreamSeries }

\* The hourly series of the recorded forecast, in hundredths of a degree and
\* of a probability: temperature, apparentTemperature, precipProbability
FixtureHours ==
    <<
       <<4804, 4482, 0>>, <<4699, 4395, 12>>, <<4674, 4265, 24>>, <<4686, 4185, 24>>,
       <<4698, 4132, 39>>, <<4749, 4151, 67>>, <<4808, 4208, 87>>, <<4856, 4268, 88>>,
       <<4936, 4393, 89>>, <<5030, 5030, 91>>, <<5040, 5040, 91>>, <<5043, 5043, 85>>,
       <<5033, 5033, 64>>, <<4979, 4721, 46>>, <<4891, 4580, 28>>, <<4962, 4583, 26>>,
       <<5011, 5011, 14>>, <<5066, 5066, 8>>, <<5078, 5078, 7>>, <<4957, 4395, 7>>,
       <<4748, 4095, 8>>, <<4546, 3814, 8>>, <<4364, 3611, 7>>, <<4222, 3433, 0>>,
       <<4097, 3257, 0>>, <<3962, 3148, 0>>, <<3834, 2999, 0>>, <<3740, 2821, 0>>,
       <<3709, 2794, 0>>, <<3726, 2825, 0>>, <<3738, 2851, 2>>, <<3723, 2854, 2>>,
       <<3699, 2845, 2>>, <<3659, 2784, 2>>, <<3597, 2706, 0>>, <<3523, 2605, 0>>,
       <<3447, 2499, 0>>, <<3358, 2405, 0>>, <<3275, 2312, 0>>, <<3265, 2304, 2>>,
       <<3391, 2456, 2>>, <<3626, 2742, 0>>, <<3839, 3007, 0>>, <<4056, 3286, 0>>,
       <<4270, 3565, 0>>, <<4399, 3742, 0>>, <<4398, 3766, 0>>, <<4313, 3684, 0>>,
       <<4196, 3559, 0>> >>

\* The recorded forecast, its temperatures taken to the nearest 1 / TempUnit
MEMOIZED_FORECAST ==
    [alerts |-> [defined |-> TRUE, items |-> <<FloodWatch, WindAdvisory>>],
     currently |->
        [temperature |-> RoundDiv(4737 * TempUnit, 100),
         apparentTemperature |-> RoundDiv(4428 * TempUnit, 100),
         summary |-> Overcast.summary],
     hourly |->
        [summary |->
            <<"H", "e", "a", "v", "y", " ", "r", "a", "i", "n", " ", "s", "t",
              "a", "r", "t", "i", "n", "g", " ", "t", "h", "i", "s", " ", "e",
              "v", "e", "n", "i", "n", "g", ".">>,
         data |-> [k \in 1..Len(FixtureHours) |->
                      Hour(RoundDiv(FixtureHours[k][1] * TempUnit, 100),
                           RoundDiv(FixtureHours[k][2] * TempUnit, 100),
                           RoundDiv(FixtureHours[k][3] * ProbUnit, 100))]],
     missing |-> {}]

\* No request waits; no call of fetch is observed
NoParked == <<>>
\* A value of JSON: a number or an array of values; and no value
JsonNumber(n) == [kind |-> "number", val |-> n, items |-> <<>>]
JsonArray(items) == [kind |-> "array", val |-> 0, items |-> items]
NoValue == [kind |-> "undefined", val |-> 0, items |-> <<>>]

\* fetch before it is called: no response, nothing read, no promise
NoFetch ==
    [url |-> <<>>, statusCode |-> 0, statusMessage |-> <<>>, rawData |-> <<>>,
     ended |-> FALSE, failed |-> FALSE, settles |-> 0,
     promise |-> [state |-> "none", error |-> NoError, value |-> NoValue]]

\* Texts handed to the decoration functions on their own
Texts ==
    { <<>>, <<"a">>, <<" ", "*", "*">>, <<"<", "b", ">">>, <<"m", ESC, "[">>,
      <<"2", "4", "h">>, <<"<", "/">>, <<LF>> }

---------------------------------------------------------------------------
(* One request: normalise the payload, then render the report.  render     *)
(* evaluates its array literal in order: the time axis, the temperature    *)
(* graph, the precipitation graph, and then filters and joins.             *)

Init ==
    /\ payload \in Payloads
    /\ format \in Format
    /\ forecast = NoForecast
    /\ timeOffsets = <<>>
    /\ temperatureGraph = <<>>
    /\ precipitationGraph = <<>>
    /\ output = <<>>
    /\ pc = "transform"
    /\ src = <<>>
    /\ text = <<>>
    /\ applied = <<>>
    /\ request = NoRequest
    /\ step = "core"
    /\ error = NoError
    /\ response = NoResponse
    /\ calls = <<>>
    /\ fixture = MEMOIZED_FORECAST
    /\ parked = NoParked
    /\ fetching = NoFetch

Transform ==
    /\ pc = "transform"
    /\ forecast' = transformDarkSkyForecast(payload)
    /\ pc' = "timeOffsets"
    /\ UNCHANGED <<payload, format, timeOffsets, temperatureGraph,
                   precipitationGraph, output, src, text, applied, handlerVars, serverVars>>

\* RenderTimeOffsets taking the hours off the Forecast as it prints them
RenderTimeOffsets_Consuming ==
    /\ pc = "timeOffsets"
    /\ timeOffsets' = renderTimeOffsets(forecast, format)
    /\ forecast' = [forecast EXCEPT !.hourly = SliceFrom(forecast.hourly, 1)]
    /\ pc' = "temperatureGraph"
    /\ UNCHANGED <<payload, format, temperatureGraph,
                   precipitationGraph, output, src, text, applied, handlerVars, serverVars>>

RenderTimeOffsets ==
    /\ pc = "timeOffsets"
    /\ timeOffsets' = renderTimeOffsets(forecast, format)
    /\ pc' = "temperatureGraph"
    /\ UNCHANGED <<payload, format, forecast, temperatureGraph,
                   precipitationGraph, output, src, text, applied, handlerVars, serverVars>>

RenderTemperatureGraph ==
    /\ pc = "temperatureGraph"
    /\ temperatureGraph' = renderTemperatureGraph(forecast, format)
    /\ pc' = "precipitationGraph"
    /\ UNCHANGED <<payload, format, forecast, timeOffsets,
                   precipitationGraph, output, src, text, applied, handlerVars, serverVars>>

RenderPrecipitationGraph ==
    /\ pc = "precipitationGraph"
    /\ precipitationGraph' = renderPrecipitationGraph(forecast, format)
    /\ pc' = "compose"
    /\ UNCHANGED <<payload, format, forecast, timeOffsets,
                   temperatureGraph, output, src, text, applied, handlerVars, serverVars>>

Render ==
    /\ pc = "compose"
    /\ output' = Compose(ReportParts(forecast, format, timeOffsets,
                                     temperatureGraph, precipitationGraph))
    /\ pc' = "done"
    /\ UNCHANGED <<payload, format, forecast, timeOffsets, temperatureGraph,
                   precipitationGraph, src, text, applied, handlerVars, serverVars>>

Next ==
    \/ Transform
    \/ RenderTimeOffsets
    \/ RenderTemperatureGraph
    \/ RenderPrecipitationGraph
    \/ Render

Spec == Init /\ [][Next]_vars

---------------------------------------------------------------------------
(* The decoration functions on their own: a text is decorated, one         *)
(* decoration inside the next, up to MaxDecor deep.                        *)

InitFormat ==
    /\ payload \in { p \in Payloads : p.hourly.data = <<>> /\ ~p.alerts.defined }
    /\ format \in Format
    /\ forecast = NoForecast
    /\ timeOffsets = <<>>
    /\ temperatureGraph = <<>>
    /\ precipitationGraph = <<>>
    /\ output = <<>>
    /\ pc = "decorate"
    /\ src \in Texts
    /\ text = src
    /\ applied = <<>>
    /\ request = NoRequest
    /\ step = "core"
    /\ error = NoError
    /\ response = NoResponse
    /\ calls = <<>>
    /\ fixture = MEMOIZED_FORECAST
    /\ parked = NoParked
    /\ fetching = NoFetch

Bold ==
    /\ pc = "decorate"
    /\ Len(applied) < MaxDecor
    /\ text' = bold(text, format)
    /\ applied' = Append(applied, "bold")
    /\ UNCHANGED <<payload, format, forecast, timeOffsets, temperatureGraph,
                   precipitationGraph, output, pc, src, handlerVars, serverVars>>

Cyan ==
    /\ pc = "decorate"
    /\ Len(applied) < MaxDecor
    /\ text' = cyan(text, format)
    /\ applied' = Append(applied, "cyan")
    /\ UNCHANGED <<payload, format, forecast, timeOffsets, temperatureGraph,
                   precipitationGraph, output, pc, src, handlerVars, serverVars>>

NextFormat == Bold \/ Cyan

SpecFormat == InitFormat /\ [][NextFormat]_vars

---------------------------------------------------------------------------
(* Reading a rendered text *)

\* The lines of a text: split('\n')
RECURSIVE SplitLines(_)
SplitLines(s) ==
    IF \A k \in 1..Len(s) : s[k] # LF THEN <<s>>
    ELSE LET at == CHOOSE k \in 1..Len(s) :
                      s[k] = LF /\ \A j \in 1..(k - 1) : s[j] # LF
         IN  <<SubSeq(s, 1, at - 1)>> \o SplitLines(SubSeq(s, at + 1, Len(s)))

\* The number of lines a section contributes: none when it is the empty string
LineCount(s) == IF s = <<>> THEN 0 ELSE Len(SplitLines(s))

StartsWith(s, p) == Len(p) <= Len(s) /\ SubSeq(s, 1, Len(p)) = p
EndsWith(s, p) == Len(p) <= Len(s) /\ SubSeq(s, Len(s) - Len(p) + 1, Len(s)) = p
Contains(s, p) == \E k \in 0..(Len(s) - Len(p)) : SubSeq(s, k + 1, k + Len(p)) = p

\* What each decoration puts before and after a text
DecorOpen(d, f) ==
    CASE d = "bold" /\ f = Html -> <<"<", "s", "t", "r", "o", "n", "g", ">">>
      [] d = "bold" /\ f = Tty  -> <<ESC, "[", "1", "m">>
      [] d = "cyan" /\ f = Html ->
            <<"<", "s", "p", "a", "n", " ", "s", "t", "y", "l", "e", "=", "\"",
              "c", "o", "l", "o", "r", ":", " ", "t", "e", "a", "l", "\"", ">">>
      [] d = "cyan" /\ f = Tty  -> <<ESC, "[", "3", "6", "m">>

DecorClose(d, f) ==
    CASE d = "bold" /\ f = Html -> <<"<", "/", "s", "t", "r", "o", "n", "g", ">">>
      [] d = "cyan" /\ f = Html -> <<"<", "/", "s", "p", "a", "n", ">">>
      [] f = Tty                -> <<ESC, "[", "0", "m">>

DecorMarks(f) ==
    { DecorOpen(d, f) : d \in {"bold", "cyan"} } \cup { DecorClose(d, f) : d \in {"bold", "cyan"} }

\* A text without any of the marks of format f
RECURSIVE Strip(_, _)
Strip(s, f) ==
    IF s = <<>> THEN <<>>
    ELSE IF s[1] \in {"<", ESC} /\ \E m \in DecorMarks(f) : StartsWith(s, m)
         THEN LET m == CHOOSE x \in DecorMarks(f) : StartsWith(s, x)
              IN  Strip(SubSeq(s, Len(m) + 1, Len(s)), f)
    ELSE <<s[1]>> \o Strip(Tail(s), f)

StripLines(lines, f) == [k \in 1..Len(lines) |-> Strip(lines[k], f)]

\* The steps after which each section has been rendered
AxisRendered == pc \in {"temperatureGraph", "precipitationGraph", "compose", "done"}
TemperatureRendered == pc \in {"precipitationGraph", "compose", "done"}
PrecipitationRendered == pc \in {"compose", "done"}

NumHours == Len(forecast.hourly)

\* The visible lines of the rendered sections
AxisLine == Strip(timeOffsets, format)
TemperatureLines == StripLines(SplitLines(temperatureGraph), format)
PrecipitationLines == StripLines(SplitLines(precipitationGraph), format)

\* The 2-character slot of hour column c (1..n) in a visible graph line
Cell(line, c) == SubSeq(line, PREFIX_LEN + 2 * c - 1, PREFIX_LEN + 2 * c)

\* The line of row i (7 down to 1) among the 8 lines of a temperature graph
RowLine(lines, i) == lines[tempGraphHeight + 1 - i]

---------------------------------------------------------------------------
(* The webtask entrypoint and the forecast sources *)

\* The format before the handler has chosen one
NoFormat == "undefined"

\* context.secrets
SMARTYSTREETS_KEY == <<"i", "d", "1">>
SMARTYSTREETS_TOKEN == <<"t", "o", "k">>
DARK_SKY_SECRET == <<"k", "e", "y">>

\* The zipcode answered from the recorded forecast, and another one
FixtureZipcode == <<"0", "2", "1", "3", "0">>
OtherZipcode == <<"1", "0", "0", "0", "1">>

\* url.toString() of getLatLngForZipCode
GeocodeUrl(zipcode) ==
    <<"h", "t", "t", "p", "s", ":", "/", "/", "u", "s", "-", "z", "i", "p",
      "c", "o", "d", "e", ".", "a", "p", "i", ".", "s", "m", "a", "r", "t",
      "y", "s", "t", "r", "e", "e", "t", "s", ".", "c", "o", "m", "/", "l",
      "o", "o", "k", "u", "p">>
      \o <<"?", "a", "u", "t", "h", "-", "i", "d", "=">> \o SMARTYSTREETS_KEY
      \o <<"&", "a", "u", "t", "h", "-", "t", "o", "k", "e", "n", "=">>
      \o SMARTYSTREETS_TOKEN
      \o <<"&", "z", "i", "p", "c", "o", "d", "e", "=">> \o zipcode

\* ForecastUrl with the longitude before the latitude
ForecastUrl_Swapped(latitude, longitude) ==
    <<"h", "t", "t", "p", "s", ":", "/", "/", "a", "p", "i", ".", "d", "a", "r", "k",
      "s", "k", "y", ".", "n", "e", "t", "/", "f", "o", "r", "e", "c", "a", "s", "t", "/">>
      \o DARK_SKY_SECRET \o <<"/">> \o longitude \o <<",">> \o latitude

\* The url of getForecastForLatLng; latitude and longitude as they print
ForecastUrl(latitude, longitude) ==
    <<"h", "t", "t", "p", "s", ":", "/", "/", "a", "p", "i", ".", "d", "a",
      "r", "k", "s", "k", "y", ".", "n", "e", "t", "/", "f", "o", "r", "e",
      "c", "a", "s", "t", "/">>
      \o DARK_SKY_SECRET \o <<"/">> \o latitude \o <<",">> \o longitude

\* What the network gives back for one get: an 'error' event on the request,
\* or a response with a status and a body that JSON.parse accepts or not
Failure(message) ==
    [failure |-> Error(message), statusCode |-> 0, statusMessage |-> <<>>,
     valid |-> FALSE, complaint |-> <<>>]
Status(code, message) ==
    [failure |-> NoError, statusCode |-> code, statusMessage |-> message,
     valid |-> FALSE, complaint |-> <<>>]
Unparsable(complaint) ==
    [failure |-> NoError, statusCode |-> 200, statusMessage |-> <<"O", "K">>,
     valid |-> FALSE, complaint |-> complaint]
Parsed ==
    [failure |-> NoError, statusCode |-> 200, statusMessage |-> <<"O", "K">>,
     valid |-> TRUE, complaint |-> <<>>]

ECONNRESET ==
    <<"s", "o", "c", "k", "e", "t", " ", "h", "a", "n", "g", " ", "u", "p">>
UnexpectedToken ==
    <<"U", "n", "e", "x", "p", "e", "c", "t", "e", "d", " ", "t", "o", "k",
      "e", "n", " ", "<", " ", "i", "n", " ", "J", "S", "O", "N", " ", "a",
      "t", " ", "p", "o", "s", "i", "t", "i", "o", "n", " ", "0">>
Unauthorized == <<"U", "n", "a", "u", "t", "h", "o", "r", "i", "z", "e", "d">>
Forbidden == <<"F", "o", "r", "b", "i", "d", "d", "e", "n">>

\* The replies without data, the same for both services
Refusals ==
    { Failure(ECONNRESET), Status(401, Unauthorized), Status(403, Forbidden),
      Unparsable(UnexpectedToken) }

\* The settled promise of fetch(url): rejected with an error, or resolved
\* with the parsed body
fetch(url, reply, data) ==
    IF reply.failure.thrown
    THEN [rejected |-> TRUE, error |-> reply.failure, data |-> data]
    ELSE IF reply.statusCode # 200
    THEN [rejected |-> TRUE,
          error |-> Error(url \o <<":", " ">> \o NatToChars(reply.statusCode)
                              \o <<" ">> \o reply.statusMessage),
          data |-> data]
    ELSE IF ~reply.valid
    THEN [rejected |-> TRUE, error |-> Error(reply.complaint), data |-> data]
    ELSE [rejected |-> FALSE, error |-> NoError, data |-> data]

\* The bodies SmartyStreets answers with: a list of results, each with its
\* zipcodes or without
Centroid ==
    [latitude |-> <<"4", "0", ".", "7", "5">>,
     longitude |-> <<"-", "7", "3", ".", "9", "9">>]
Equator == [latitude |-> <<"0">>, longitude |-> <<"1", "2", ".", "5">>]
\* A zipcodes entry without coordinates: both read as undefined, which the
\* template of the forecast address writes as the word
Unlocated ==
    [latitude |-> <<"u", "n", "d", "e", "f", "i", "n", "e", "d">>,
     longitude |-> <<"u", "n", "d", "e", "f", "i", "n", "e", "d">>]
GeocodeBodies ==
    { << [zipcodes |-> [defined |-> TRUE, items |-> <<Centroid>>]] >>,
      << [zipcodes |-> [defined |-> TRUE, items |-> <<Equator, Centroid>>]] >>,
      << [zipcodes |-> [defined |-> TRUE, items |-> <<Unlocated>>]] >>,
      << [zipcodes |-> [defined |-> TRUE, items |-> <<>>]] >>,
      << [zipcodes |-> [defined |-> FALSE, items |-> <<>>]] >>,
      << >> }

\* The TypeError of reading a property of undefined
CannotRead(property) ==
    Error(<<"C", "a", "n", "n", "o", "t", " ", "r", "e", "a", "d", " ",
            "p", "r", "o", "p", "e", "r", "t", "y", " ", "'">> \o property
          \o <<"'", " ", "o", "f", " ", "u", "n", "d", "e", "f", "i", "n", "e", "d">>)

\* The error data[0].zipcodes[0].latitude throws, if any
latLngError(data) ==
    IF data = <<>>
    THEN CannotRead(<<"z", "i", "p", "c", "o", "d", "e", "s">>)
    ELSE IF ~data[1].zipcodes.defined
    THEN CannotRead(<<"0">>)
    ELSE IF data[1].zipcodes.items = <<>>
    THEN CannotRead(<<"l", "a", "t", "i", "t", "u", "d", "e">>)
    ELSE NoError

\* The error transformDarkSkyForecast(data) throws, if any: the fields of
\* the object literal are evaluated in their order
transformError(data) ==
    IF "currently" \in data.missing
    THEN CannotRead(<<"t", "e", "m", "p", "e", "r", "a", "t", "u", "r", "e">>)
    ELSE IF "hourly" \in data.missing
    THEN CannotRead(<<"s", "u", "m", "m", "a", "r", "y">>)
    ELSE IF "hourly.data" \in data.missing
    THEN CannotRead(<<"s", "l", "i", "c", "e">>)
    ELSE NoError

\* The bodies Dark Sky answers with: payloads of 1 and of 26 hours, and
\* payloads that lack the current conditions, the hourly block or its data
ForecastBodies ==
    { p \in Payloads : Len(p.hourly.data) \in {1, 26} }
      \cup { [alerts |-> [defined |-> FALSE, items |-> <<>>], currently |-> Overcast,
              hourly |-> [summary |-> Dry, data |-> <<>>], missing |-> m] :
                m \in {{"currently"}, {"hourly"}, {"hourly.data"},
                       {"currently", "hourly"}} }

\* The payload before one has been received
NoPayload ==
    [alerts |-> [defined |-> FALSE, items |-> <<>>], currently |-> Overcast,
     hourly |-> [summary |-> <<>>, data |-> <<>>],
     missing |-> {"currently", "hourly"}]

\* request.headers.accept && request.headers.accept.includes('html')
AcceptFormat_Exact(accept) ==
    IF accept.defined /\ accept.value = <<"t", "e", "x", "t", "/", "h", "t", "m", "l">>
    THEN Html
    ELSE Tty

AcceptFormat(accept) ==
    IF accept.defined /\ accept.value # <<>>
          /\ Contains(accept.value, <<"h", "t", "m", "l">>)
    THEN Html
    ELSE Tty

\* !url.query.zipcode is false: an array, or a string that is not empty
ZipcodeTruthy(zipcode) ==
    zipcode.kind = "array" \/ (zipcode.kind = "string" /\ zipcode.value # <<>>)

AcceptValues ==
    { NoAccept,
      Accept(<<>>),
      Accept(<<"*", "/", "*">>),
      Accept(<<"t", "e", "x", "t", "/", "h", "t", "m", "l", ",",
               "a", "p", "p", "l", "i", "c", "a", "t", "i", "o", "n", "/",
               "x", "h", "t", "m", "l", "+", "x", "m", "l">>),
      Accept(<<"a", "p", "p", "l", "i", "c", "a", "t", "i", "o", "n", "/",
               "x", "h", "t", "m", "l", "+", "x", "m", "l">>),
      Accept(<<"T", "E", "X", "T", "/", "H", "T", "M", "L">>),
      Accept(<<"t", "e", "x", "t", "/", "p", "l", "a", "i", "n">>) }

Requests ==
    { [zipcode |-> z, accept |-> a] :
        z \in { NoZipcode, OneZipcode(<<>>),
                ManyZipcodes(<<FixtureZipcode, OtherZipcode>>),
                OneZipcode(FixtureZipcode), OneZipcode(OtherZipcode) },
        a \in AcceptValues }

InitHandler ==
    /\ request \in Requests
    /\ step = "request"
    /\ error = NoError
    /\ response = NoResponse
    /\ calls = <<>>
    /\ fixture = MEMOIZED_FORECAST
    /\ parked = NoParked
    /\ fetching = NoFetch
    /\ payload = NoPayload
    /\ format = NoFormat
    /\ forecast = NoForecast
    /\ timeOffsets = <<>>
    /\ temperatureGraph = <<>>
    /\ precipitationGraph = <<>>
    /\ output = <<>>
    /\ pc = "idle"
    /\ src = <<>>
    /\ text = <<>>
    /\ applied = <<>>

\* The catch block answering with a fixed text
Catch_Generic(e) ==
    /\ error' = e
    /\ response' = [statusCodes |-> Append(response.statusCodes, 500),
                    ended |-> Append(response.ended, <<"E", "r", "r", "o", "r">>)]
    /\ step' = "done"

\* The catch block without the end of the response
Catch_NoEnd(e) ==
    /\ error' = e
    /\ response' = [response EXCEPT !.statusCodes = Append(@, 500)]
    /\ step' = "done"

\* The catch block: writeHead(500), end(e.message)
Catch(e) ==
    /\ error' = e
    /\ response' = [statusCodes |-> Append(response.statusCodes, 500),
                    ended |-> Append(response.ended, e.message)]
    /\ step' = "done"

\* Normalize awaiting the forecast again when the payload cannot be transformed
Normalize_AwaitAgain(data) ==
    /\ payload' = data
    /\ IF transformError(data).thrown
       THEN /\ step' = "forecast"
            /\ UNCHANGED <<forecast, error, response>>
       ELSE /\ forecast' = transformDarkSkyForecast(data)
            /\ step' = "respond"
            /\ UNCHANGED <<error, response>>

\* transformDarkSkyForecast(data) inside the try block of handler: the
\* Forecast, or the error thrown, which the catch block receives
Normalize(data) ==
    /\ payload' = data
    /\ IF transformError(data).thrown
       THEN /\ Catch(transformError(data))
            /\ UNCHANGED forecast
       ELSE /\ forecast' = transformDarkSkyForecast(data)
            /\ step' = "respond"
            /\ UNCHANGED <<error, response>>

\* An upstream call as issued, its promise pending, and as settled; a
\* geocoding call that resolved keeps the centroid it returned
Call(to, url) ==
    [to |-> to, url |-> url, outcome |-> "pending", latitude |-> <<>>, longitude |-> <<>>]
Settled(call, outcome, latitude, longitude) ==
    [call EXCEPT !.outcome = outcome, !.latitude = latitude, !.longitude = longitude]

\* Handle without the test for several zipcodes
Handle_NoArrayCheck ==
    /\ step = "request"
    /\ IF ~ZipcodeTruthy(request.zipcode)
       THEN /\ Catch(Error(<<"M", "i", "s", "s", "i", "n", "g", " ",
                             "z", "i", "p", "c", "o", "d", "e", " ",
                             "p", "a", "r", "a", "m", "e", "t", "e", "r">>))
            /\ UNCHANGED <<format, payload, forecast, calls>>
       ELSE /\ format' = AcceptFormat(request.accept)
            /\ calls' = Append(calls, Call("geocode", GeocodeUrl(OtherZipcode)))
            /\ step' = "geocode"
            /\ UNCHANGED <<payload, forecast, error, response>>
    /\ UNCHANGED <<request, pc, timeOffsets, temperatureGraph, precipitationGraph,
                   output, src, text, applied, serverVars>>

\* Handle taking the hours it reads off the recorded forecast (splice for slice)
Handle_FixtureSpliced ==
    /\ step = "request"
    /\ IF ~ZipcodeTruthy(request.zipcode)
       THEN /\ Catch(Error(<<"M", "i", "s", "s", "i", "n", "g", " ",
                             "z", "i", "p", "c", "o", "d", "e", " ",
                             "p", "a", "r", "a", "m", "e", "t", "e", "r">>))
            /\ UNCHANGED <<format, payload, forecast, calls, fixture>>
       ELSE IF request.zipcode.kind = "array"
       THEN /\ Catch(Error(<<"C", "a", "n", "n", "o", "t", " ",
                             "s", "p", "e", "c", "i", "f", "y", " ",
                             "m", "u", "l", "t", "i", "p", "l", "e", " ",
                             "z", "i", "p", "c", "o", "d", "e", "s">>))
            /\ UNCHANGED <<format, payload, forecast, calls, fixture>>
       ELSE /\ format' = AcceptFormat(request.accept)
            /\ IF request.zipcode.value = FixtureZipcode
               THEN /\ Normalize(fixture)
                    /\ fixture' = [fixture EXCEPT !.hourly.data = SliceFrom(@, 25)]
                    /\ UNCHANGED calls
               ELSE /\ calls' = Append(calls,
                                       Call("geocode", GeocodeUrl(request.zipcode.value)))
                    /\ step' = "geocode"
                    /\ UNCHANGED <<payload, forecast, error, response, fixture>>
    /\ UNCHANGED <<request, pc, timeOffsets, temperatureGraph, precipitationGraph,
                   output, src, text, applied, parked, fetching>>

\* A request arrives and handler runs up to its first await: the checks of
\* the zipcode, the format, and getForecastForZipCode, which reads the
\* recorded forecast or asks SmartyStreets.  transformDarkSkyForecast reads
\* its argument with slice and map, which leave the recorded forecast as it is
Handle ==
    /\ step = "request"
    /\ IF ~ZipcodeTruthy(request.zipcode)
       THEN /\ Catch(Error(<<"M", "i", "s", "s", "i", "n", "g", " ",
                             "z", "i", "p", "c", "o", "d", "e", " ",
                             "p", "a", "r", "a", "m", "e", "t", "e", "r">>))
            /\ UNCHANGED <<format, payload, forecast, calls>>
       ELSE IF request.zipcode.kind = "array"
       THEN /\ Catch(Error(<<"C", "a", "n", "n", "o", "t", " ",
                             "s", "p", "e", "c", "i", "f", "y", " ",
                             "m", "u", "l", "t", "i", "p", "l", "e", " ",
                             "z", "i", "p", "c", "o", "d", "e", "s">>))
            /\ UNCHANGED <<format, payload, forecast, calls>>
       ELSE /\ format' = AcceptFormat(request.accept)
            /\ IF request.zipcode.value = FixtureZipcode
               THEN /\ Normalize(fixture)
                    /\ UNCHANGED calls
               ELSE /\ calls' = Append(calls,
                                       Call("geocode", GeocodeUrl(request.zipcode.value)))
                    /\ step' = "geocode"
                    /\ UNCHANGED <<payload, forecast, error, response>>
    /\ UNCHANGED <<request, pc, timeOffsets, temperatureGraph, precipitationGraph,
                   output, src, text, applied, serverVars>>

\* GeocodeSettles asking SmartyStreets again when its fetch rejects
GeocodeSettles_Retry ==
    /\ step = "geocode"
    /\ \E reply \in Refusals \cup {Parsed}, data \in GeocodeBodies :
          LET outcome == fetch(calls[Len(calls)].url, reply, data)
              asked   == calls[Len(calls)]
          IN  IF outcome.rejected
              THEN /\ Len(calls) < 2
                   /\ calls' = Append([calls EXCEPT ![Len(calls)] =
                                          Settled(asked, "rejected", <<>>, <<>>)],
                                      Call("geocode", asked.url))
                   /\ UNCHANGED <<step, error, response>>
              ELSE IF latLngError(outcome.data).thrown
              THEN /\ Catch(latLngError(outcome.data))
                   /\ calls' = [calls EXCEPT ![Len(calls)] =
                                   Settled(asked, "resolved", <<>>, <<>>)]
              ELSE /\ calls' = Append(
                          [calls EXCEPT ![Len(calls)] =
                              Settled(asked, "resolved",
                                      outcome.data[1].zipcodes.items[1].latitude,
                                      outcome.data[1].zipcodes.items[1].longitude)],
                          Call("forecast",
                               ForecastUrl(outcome.data[1].zipcodes.items[1].latitude,
                                           outcome.data[1].zipcodes.items[1].longitude)))
                   /\ step' = "forecast"
                   /\ UNCHANGED <<error, response>>
    /\ UNCHANGED <<request, format, payload, forecast, pc, timeOffsets,
                   temperatureGraph, precipitationGraph, output, src, text, applied,
                   serverVars>>

\* The promise of the geocoding fetch settles: getLatLngForZipCode reads the
\* centroid and getForecastForLatLng asks Dark Sky, or the error is caught
GeocodeContinues(outcome) ==
    LET asked == calls[Len(calls)]
    IN  IF outcome.rejected
        THEN /\ Catch(outcome.error)
             /\ calls' = [calls EXCEPT ![Len(calls)] =
                             Settled(asked, "rejected", <<>>, <<>>)]
        ELSE IF latLngError(outcome.data).thrown
        THEN /\ Catch(latLngError(outcome.data))
             /\ calls' = [calls EXCEPT ![Len(calls)] =
                             Settled(asked, "resolved", <<>>, <<>>)]
        ELSE /\ calls' = Append(
                    [calls EXCEPT ![Len(calls)] =
                        Settled(asked, "resolved",
                                outcome.data[1].zipcodes.items[1].latitude,
                                outcome.data[1].zipcodes.items[1].longitude)],
                    Call("forecast",
                         ForecastUrl(outcome.data[1].zipcodes.items[1].latitude,
                                     outcome.data[1].zipcodes.items[1].longitude)))
             /\ step' = "forecast"
             /\ UNCHANGED <<error, response>>

GeocodeSettles ==
    /\ step = "geocode"
    /\ \E reply \in Refusals \cup {Parsed}, data \in GeocodeBodies :
          GeocodeContinues(fetch(calls[Len(calls)].url, reply, data))
    /\ UNCHANGED <<request, format, payload, forecast, pc, timeOffsets,
                   temperatureGraph, precipitationGraph, output, src, text, applied,
                   serverVars>>

\* The promise of the forecast fetch settles: the payload is transformed, or
\* the error is caught
ForecastContinues(outcome) ==
    LET asked == calls[Len(calls)]
    IN  IF outcome.rejected
        THEN /\ Catch(outcome.error)
             /\ calls' = [calls EXCEPT ![Len(calls)] =
                             Settled(asked, "rejected", <<>>, <<>>)]
             /\ UNCHANGED <<payload, forecast>>
        ELSE /\ Normalize(outcome.data)
             /\ calls' = [calls EXCEPT ![Len(calls)] =
                             Settled(asked, "resolved", <<>>, <<>>)]

ForecastSettles ==
    /\ step = "forecast"
    /\ \E reply \in Refusals \cup {Parsed}, data \in ForecastBodies :
          ForecastContinues(fetch(calls[Len(calls)].url, reply, data))
    /\ UNCHANGED <<request, format, pc, timeOffsets, temperatureGraph,
                   precipitationGraph, output, src, text, applied, serverVars>>

\* response.writeHead(200, ...); the evaluation of render begins
WriteHead200 ==
    /\ step = "respond"
    /\ response' = [response EXCEPT !.statusCodes = Append(@, 200)]
    /\ pc' = "timeOffsets"
    /\ step' = "render"
    /\ UNCHANGED <<request, error, calls, payload, format, forecast, timeOffsets,
                   temperatureGraph, precipitationGraph, output, src, text, applied,
                   serverVars>>

\* response.end(render(forecast, format)), render having returned
End200 ==
    /\ step = "render"
    /\ pc = "done"
    /\ response' = [response EXCEPT !.ended = Append(@, output)]
    /\ step' = "done"
    /\ UNCHANGED <<request, error, calls, payload, format, forecast, timeOffsets,
                   temperatureGraph, precipitationGraph, output, pc, src, text, applied,
                   serverVars>>

NextHandler ==
    \/ Handle
    \/ GeocodeSettles
    \/ ForecastSettles
    \/ WriteHead200
    \/ RenderTimeOffsets
    \/ RenderTemperatureGraph
    \/ RenderPrecipitationGraph
    \/ Render
    \/ End200

SpecHandler == InitHandler /\ [][NextHandler]_vars

---------------------------------------------------------------------------
(* Several requests.  Each call of handler has its own locals; the module  *)
(* shares the recorded forecast.  JavaScript runs one callback at a time:  *)
(* another request is taken up only while the current one awaits an        *)
(* upstream call, or is over.                                              *)

\* The requests that arrive at the server
ServerRequests ==
    { [zipcode |-> OneZipcode(FixtureZipcode), accept |-> NoAccept],
      [zipcode |-> OneZipcode(FixtureZipcode),
       accept |-> Accept(<<"t", "e", "x", "t", "/", "h", "t", "m", "l">>)],
      [zipcode |-> OneZipcode(OtherZipcode), accept |-> NoAccept] }

InitServer ==
    /\ request \in ServerRequests
    /\ step = "request"
    /\ error = NoError
    /\ response = NoResponse
    /\ calls = <<>>
    /\ fixture = MEMOIZED_FORECAST
    /\ parked = NoParked
    /\ fetching = NoFetch
    /\ payload = NoPayload
    /\ format = NoFormat
    /\ forecast = NoForecast
    /\ timeOffsets = <<>>
    /\ temperatureGraph = <<>>
    /\ precipitationGraph = <<>>
    /\ output = <<>>
    /\ pc = "idle"
    /\ src = <<>>
    /\ text = <<>>
    /\ applied = <<>>

\* The locals of the call of handler that is being run
Locals ==
    [request |-> request, step |-> step, error |-> error, response |-> response,
     calls |-> calls, payload |-> payload, format |-> format, forecast |-> forecast]

\* The current call of handler awaits an upstream call, or has returned
Yielded == step \in {"geocode", "forecast", "done"}

\* Another request arrives: a new call of handler, with locals of its own
Arrive ==
    /\ Yielded
    /\ IF step = "done"
       THEN parked' = parked
       ELSE /\ Len(parked) < MaxParked
            /\ parked' = Append(parked, Locals)
    /\ request' \in ServerRequests
    /\ step' = "request"
    /\ error' = NoError
    /\ response' = NoResponse
    /\ calls' = <<>>
    /\ payload' = NoPayload
    /\ format' = NoFormat
    /\ forecast' = NoForecast
    /\ timeOffsets' = <<>>
    /\ temperatureGraph' = <<>>
    /\ precipitationGraph' = <<>>
    /\ output' = <<>>
    /\ pc' = "idle"
    /\ UNCHANGED <<src, text, applied, fixture, fetching>>

\* The event loop turns to a request that waits for its upstream call
Resume ==
    /\ Yielded
    /\ \E k \in 1..Len(parked) :
          /\ request' = parked[k].request
          /\ step' = parked[k].step
          /\ error' = parked[k].error
          /\ response' = parked[k].response
          /\ calls' = parked[k].calls
          /\ payload' = parked[k].payload
          /\ format' = parked[k].format
          /\ forecast' = parked[k].forecast
          /\ parked' = IF step = "done"
                       THEN SubSeq(parked, 1, k - 1) \o SubSeq(parked, k + 1, Len(parked))
                       ELSE [parked EXCEPT ![k] = Locals]
    /\ timeOffsets' = <<>>
    /\ temperatureGraph' = <<>>
    /\ precipitationGraph' = <<>>
    /\ output' = <<>>
    /\ pc' = "idle"
    /\ UNCHANGED <<src, text, applied, fixture, fetching>>

NextServer ==
    \/ NextHandler
    \/ Arrive
    \/ Resume

SpecServer == InitServer /\ [][NextServer]_vars

---------------------------------------------------------------------------
(* fetch, event by event: the callbacks that https.get runs, each of them  *)
(* to its end before the next.                                             *)

\* JSON.parse for texts of digits 1, brackets and commas: the value, or the
\* place of the character that cannot be accepted
RECURSIVE ParseNumber(_, _, _)
ParseNumber(s, i, n) ==
    IF i <= Len(s) /\ s[i] = "1"
    THEN ParseNumber(s, i + 1, 10 * n + 1)
    ELSE [ok |-> TRUE, next |-> i, value |-> JsonNumber(n)]

RECURSIVE ParseValue(_, _)
RECURSIVE ParseItems(_, _, _)
ParseValue(s, i) ==
    IF i > Len(s)
    THEN [ok |-> FALSE, next |-> i, value |-> NoValue]
    ELSE IF s[i] = "1"
    THEN ParseNumber(s, i, 0)
    ELSE IF s[i] = "["
    THEN IF i + 1 <= Len(s) /\ s[i + 1] = "]"
         THEN [ok |-> TRUE, next |-> i + 2, value |-> JsonArray(<<>>)]
         ELSE ParseItems(s, i + 1, <<>>)
    ELSE [ok |-> FALSE, next |-> i, value |-> NoValue]

ParseItems(s, i, items) ==
    LET item == ParseValue(s, i)
    IN  IF ~item.ok
        THEN item
        ELSE IF item.next <= Len(s) /\ s[item.next] = ","
        THEN ParseItems(s, item.next + 1, Append(items, item.value))
        ELSE IF item.next <= Len(s) /\ s[item.next] = "]"
        THEN [ok |-> TRUE, next |-> item.next + 1,
              value |-> JsonArray(Append(items, item.value))]
        ELSE [ok |-> FALSE, next |-> item.next, value |-> NoValue]

\* The SyntaxError of JSON.parse for the character at place i of s
SyntaxError(s, i) ==
    IF i > Len(s)
    THEN Error(<<"U", "n", "e", "x", "p", "e", "c", "t", "e", "d", " ", "e", "n", "d",
                 " ", "o", "f", " ", "J", "S", "O", "N", " ", "i", "n", "p", "u", "t">>)
    ELSE Error(<<"U", "n", "e", "x", "p", "e", "c", "t", "e", "d", " ">>
               \o (IF s[i] = "1"
                   THEN <<"n", "u", "m", "b", "e", "r">>
                   ELSE <<"t", "o", "k", "e", "n", " ", s[i]>>)
               \o <<" ", "i", "n", " ", "J", "S", "O", "N", " ", "a", "t", " ",
                    "p", "o", "s", "i", "t", "i", "o", "n", " ">>
               \o NatToChars(i - 1))

JSONparse(s) ==
    LET parsed == ParseValue(s, 1)
    IN  IF parsed.ok /\ parsed.next = Len(s) + 1
        THEN [error |-> NoError, value |-> parsed.value]
        ELSE [error |-> SyntaxError(s, parsed.next), value |-> NoValue]

\* resolve and reject of a promise keeping the last settlement
Settle_LastWins(promise, outcome) == outcome

\* resolve and reject of a promise: the first settlement stays
Settle(promise, outcome) ==
    IF promise.state = "pending" THEN outcome ELSE promise

resolve(promise, value) ==
    Settle(promise, [state |-> "resolved", error |-> NoError, value |-> value])

reject(promise, e) ==
    Settle(promise, [state |-> "rejected", error |-> e, value |-> NoValue])

\* The addresses fetch is called with
FetchUrls ==
    { GeocodeUrl(OtherZipcode), ForecastUrl(Centroid.latitude, Centroid.longitude) }

\* The status lines of the responses
StatusLines ==
    { [statusCode |-> 200, statusMessage |-> <<"O", "K">>],
      [statusCode |-> 401, statusMessage |-> Unauthorized],
      [statusCode |-> 403, statusMessage |-> Forbidden] }

\* The pieces a body arrives in
BodyChars == {"[", "]", "1", ",", "<"}
Chunks ==
    { <<c>> : c \in BodyChars } \cup { <<c, d>> : c \in BodyChars, d \in BodyChars }

\* fetch(url) has returned its promise, and get(url, ...) has sent the request
Fetching(url) ==
    [NoFetch EXCEPT !.url = url, !.promise.state = "pending"]

InitFetch ==
    /\ fetching \in { Fetching(url) : url \in FetchUrls }
    /\ request = NoRequest
    /\ step = "fetch"
    /\ error = NoError
    /\ response = NoResponse
    /\ calls = <<>>
    /\ fixture = MEMOIZED_FORECAST
    /\ parked = NoParked
    /\ payload = NoPayload
    /\ format = NoFormat
    /\ forecast = NoForecast
    /\ timeOffsets = <<>>
    /\ temperatureGraph = <<>>
    /\ precipitationGraph = <<>>
    /\ output = <<>>
    /\ pc = "idle"
    /\ src = <<>>
    /\ text = <<>>
    /\ applied = <<>>

\* What fetch leaves alone
fetchFrame ==
    <<request, step, error, response, calls, fixture, parked, payload, format,
      forecast, timeOffsets, temperatureGraph, precipitationGraph, output, pc,
      src, text, applied>>

\* A stream emits nothing after its end or its error
Open == fetching.promise.state # "none" /\ ~fetching.ended /\ ~fetching.failed

\* The request emits error: reject(e)
RequestError ==
    /\ Open
    /\ fetching.statusCode = 0
    /\ fetching' = [fetching EXCEPT !.failed = TRUE,
                                    !.settles = @ + 1,
                                    !.promise = reject(@, Error(ECONNRESET))]
    /\ UNCHANGED fetchFrame

\* The response arrives: reject for a status other than 200, and go on to
\* listen to the response in either case
ResponseArrives ==
    /\ Open
    /\ fetching.statusCode = 0
    /\ \E line \in StatusLines :
          fetching' =
              [fetching EXCEPT
                  !.statusCode = line.statusCode,
                  !.statusMessage = line.statusMessage,
                  !.settles = IF line.statusCode # 200 THEN @ + 1 ELSE @,
                  !.promise = IF line.statusCode # 200
                              THEN reject(@, Error(fetching.url \o <<":", " ">>
                                                   \o NatToChars(line.statusCode)
                                                   \o <<" ">> \o line.statusMessage))
                              ELSE @]
    /\ UNCHANGED fetchFrame

\* The response emits data: rawData += chunk
Data ==
    /\ Open
    /\ fetching.statusCode # 0
    /\ \E chunk \in Chunks :
          /\ Len(fetching.rawData) + Len(chunk) <= MaxBody
          /\ fetching' = [fetching EXCEPT !.rawData = @ \o chunk]
    /\ UNCHANGED fetchFrame

\* The response emits end: resolve(JSON.parse(rawData)), or reject(e) with
\* the error JSON.parse throws
End ==
    /\ Open
    /\ fetching.statusCode # 0
    /\ fetching' =
          [fetching EXCEPT
              !.ended = TRUE,
              !.settles = @ + 1,
              !.promise = IF JSONparse(fetching.rawData).error.thrown
                          THEN reject(@, JSONparse(fetching.rawData).error)
                          ELSE resolve(@, JSONparse(fetching.rawData).value)]
    /\ UNCHANGED fetchFrame

\* The response emits error: reject(e)
ResponseError ==
    /\ Open
    /\ fetching.statusCode # 0
    /\ fetching' = [fetching EXCEPT !.failed = TRUE,
                                    !.settles = @ + 1,
                                    !.promise = reject(@, Error(ECONNRESET))]
    /\ UNCHANGED fetchFrame

NextFetch ==
    \/ RequestError
    \/ ResponseArrives
    \/ Data
    \/ End
    \/ ResponseError

SpecFetch == InitFetch /\ [][NextFetch]_vars

---------------------------------------------------------------------------
(* The handler with its upstream calls event by event.  The continuations  *)
(* of the handler run whenever they can; the upstream services emit their  *)
(* events or do not.  The body is not read character by character here:    *)
(* its end finds it to be JSON or not, and its value is what the           *)
(* continuation reads.                                                     *)

\* await with a deadline after which the handler goes on
Awaited_Timeout(promise) == TRUE

\* await lets the function go on once the promise is settled
Awaited(promise) == promise.state # "pending"

\* The upstream call the handler waits for has been handed to fetch
Sent == calls # <<>> /\ fetching.url = calls[Len(calls)].url

\* fetch(url.toString()), fetch(url): the promise is made and the request sent
Get ==
    /\ step \in {"geocode", "forecast"}
    /\ ~Sent
    /\ fetching' = Fetching(calls[Len(calls)].url)
    /\ UNCHANGED fetchFrame

\* The response emits end, all of the body having been read: JSON or not
EndOfBody ==
    /\ Open
    /\ fetching.statusCode # 0
    /\ \E reply \in {Parsed, Unparsable(UnexpectedToken)} :
          fetching' =
              [fetching EXCEPT
                  !.ended = TRUE,
                  !.settles = @ + 1,
                  !.promise = IF reply.valid
                              THEN resolve(@, NoValue)
                              ELSE reject(@, Error(reply.complaint))]
    /\ UNCHANGED fetchFrame

\* What await fetch(url) gives the handler: the error thrown, or the data
Outcome(promise, data) ==
    [rejected |-> promise.state = "rejected", error |-> promise.error, data |-> data]

\* const data = await fetch(url.toString()) in getLatLngForZipCode goes on
GeocodeAwaited ==
    /\ step = "geocode"
    /\ Sent
    /\ Awaited(fetching.promise)
    /\ \E data \in GeocodeBodies : GeocodeContinues(Outcome(fetching.promise, data))
    /\ UNCHANGED <<request, format, payload, forecast, pc, timeOffsets,
                   temperatureGraph, precipitationGraph, output, src, text, applied,
                   serverVars>>

\* await fetch(url) in getForecastForLatLng goes on
ForecastAwaited ==
    /\ step = "forecast"
    /\ Sent
    /\ Awaited(fetching.promise)
    /\ \E data \in ForecastBodies : ForecastContinues(Outcome(fetching.promise, data))
    /\ UNCHANGED <<request, format, pc, timeOffsets, temperatureGraph,
                   precipitationGraph, output, src, text, applied, serverVars>>

\* The steps of the handler itself
HandlerRuns ==
    \/ Handle
    \/ Get
    \/ GeocodeAwaited
    \/ ForecastAwaited
    \/ WriteHead200
    \/ RenderTimeOffsets
    \/ RenderTemperatureGraph
    \/ RenderPrecipitationGraph
    \/ Render
    \/ End200

\* The events of the upstream services
UpstreamEmits ==
    \/ RequestError
    \/ ResponseArrives
    \/ EndOfBody
    \/ ResponseError

NextUpstream ==
    \/ HandlerRuns
    \/ UpstreamEmits

\* The two graph functions return: the steps that leave their places, which
\* are steps of RenderTemperatureGraph and RenderPrecipitationGraph
GraphReturns ==
    \/ pc = "temperatureGraph" /\ pc' = "precipitationGraph"
    \/ pc = "precipitationGraph" /\ pc' = "compose"

\* The steps of the handler between its awaits, the graph functions aside
HandlerContinues ==
    \/ Handle
    \/ Get
    \/ GeocodeAwaited
    \/ ForecastAwaited
    \/ WriteHead200
    \/ RenderTimeOffsets
    \/ Render
    \/ End200

\* JavaScript runs every callback and continuation that is ready; when the
\* upstream services emit their events is not up to the program
SpecUpstream ==
    /\ InitHandler
    /\ [][NextUpstream]_vars
    /\ WF_vars(HandlerContinues)
    /\ WF_pc(GraphReturns)

---------------------------------------------------------------------------
(* C1: whatever the Forecast (0 to 25 hours, any temperatures) and the     *)
(* format, the output of render holds the time-axis line once and, right   *)
(* after it, the 8 lines of the temperature graph: 7 scaled rows and the   *)
(* baseline row.                                                           *)
C1_AxisAndTemperatureLines ==
    pc = "done" =>
        LET lines == SplitLines(output)
            axis  == SplitLines(timeOffsets)
            graph == SplitLines(temperatureGraph)
            block == axis \o graph
            last  == Strip(graph[Len(graph)], format)
        IN  /\ NumHours \in 0..25
            /\ Len(axis) = 1
            /\ Len(graph) = tempGraphHeight + 1
            /\ Cardinality({ k \in 1..Len(lines) :
                               /\ k + 8 <= Len(lines)
                               /\ SubSeq(lines, k, k + 8) = block }) = 1
            /\ \A c \in 1..NumHours : Cell(last, c) = Filled

C1_Witness ==
    /\ pc = "done"
    /\ NumHours = 0
    /\ Len(SplitLines(temperatureGraph)) = 8

(* C3: in the temperature graph a column filled at row i is filled at      *)
(* every row below it, so each bar is contiguous from the floor upward.    *)
C3_BarsGrowFromFloor ==
    TemperatureRendered =>
        \A lines \in {TemperatureLines} :
            \A c \in 1..NumHours : \A i \in 1..tempGraphHeight :
                Cell(RowLine(lines, i), c) = Filled =>
                    \A j \in 1..(i - 1) : Cell(RowLine(lines, j), c) = Filled

C3_Witness ==
    /\ TemperatureRendered
    /\ \E lines \in {TemperatureLines} : \E c \in 1..NumHours :
          /\ Cell(RowLine(lines, 4), c) = Filled
          /\ Cell(RowLine(lines, 5), c) = Blank

(* C4: when maxT > minT every hourly feels_like is scaled to an integer    *)
(* in 0..7, the minimum to 0 and the maximum to 7, the scaled value being  *)
(* (t - minT) / (maxT - minT) * 7 rounded to the nearest integer with a    *)
(* half rounded up; 30, 40, 50 are scaled to 0, 4, 7; and row i is filled  *)
(* in exactly the columns whose scaled height is at least i.               *)
C4_TemperatureScale ==
    (TemperatureRendered /\ NumHours >= 1) =>
        \A temps \in {Temps(forecast)} : \A scaled \in {ScaledTemps(forecast)} :
        \A lines \in {TemperatureLines} :
        \A minT \in {MinOf(temps)} : \A maxT \in {MaxOf(temps)} :
            maxT > minT =>
            /\ \A k \in 1..NumHours :
                  /\ scaled[k].kind = "finite"
                  /\ scaled[k].val \in 0..7
                  /\ temps[k] = minT => scaled[k].val = 0
                  /\ temps[k] = maxT => scaled[k].val = 7
                  \* scaled - 1/2 <= (t - minT) / (maxT - minT) * 7 < scaled + 1/2
                  /\ (2 * scaled[k].val - 1) * (maxT - minT) <= 14 * (temps[k] - minT)
                  /\ 14 * (temps[k] - minT) < (2 * scaled[k].val + 1) * (maxT - minT)
                  /\ \A i \in 1..tempGraphHeight :
                        Cell(RowLine(lines, i), k) =
                            IF scaled[k].val >= i THEN Filled ELSE Blank
            /\ temps = <<30 * TempUnit, 40 * TempUnit, 50 * TempUnit>> =>
                  /\ scaled = <<Num(0), Num(4), Num(7)>>
                  /\ \A i \in 1..tempGraphHeight :
                        SubSeq(RowLine(lines, i), PREFIX_LEN + 1, PREFIX_LEN + 6) =
                            Blank \o (IF i <= 4 THEN Filled ELSE Blank) \o Filled

C4_Witness ==
    /\ TemperatureRendered
    /\ Temps(forecast) = <<30 * TempUnit, 40 * TempUnit, 50 * TempUnit>>
    /\ \E lines \in {TemperatureLines} :
          /\ Cell(RowLine(lines, 4), 2) = Filled
          /\ Cell(RowLine(lines, 5), 2) = Blank

(* C5: for 25 hours the time axis reads, after the 9 blanks of the prefix, *)
(* "0h", "6h", "12h" and "18h" at the hour offsets 0, 6, 12 and 18, a bold *)
(* "24h" at the last column, and blanks in every other column.             *)
C5_TimeAxisOf25 ==
    (AxisRendered /\ NumHours = 25) =>
        /\ AxisLine =
              Repeat(" ", 9)
                \o <<"0", "h", " ", " ">> \o Repeat(" ", 8)
                \o <<"6", "h", " ", " ">> \o Repeat(" ", 8)
                \o <<"1", "2", "h", " ">> \o Repeat(" ", 8)
                \o <<"1", "8", "h", " ">> \o Repeat(" ", 8)
                \o <<"2", "4", "h">>
        /\ EndsWith(timeOffsets,
                    DecorOpen("bold", format) \o <<"2", "4", "h">>
                      \o DecorClose("bold", format))

C5_Witness ==
    /\ AxisRendered
    /\ NumHours = 25
    /\ Contains(AxisLine, <<"1", "8", "h">>)

(* C2: with probabilities in [0,1], renderPrecipitationGraph returns the   *)
(* empty string, and the output of render holds no precipitation line, if  *)
(* and only if every hourly precipitation_probability is 0; otherwise it   *)
(* returns exactly 5 lines.                                                *)
C2_PrecipitationIffRain ==
    PrecipitationRendered =>
        \A noRain \in {\A k \in 1..NumHours :
                          forecast.hourly[k].precipitation_probability = 0} :
            /\ \A k \in 1..NumHours :
                  forecast.hourly[k].precipitation_probability \in 0..ProbUnit
            /\ (precipitationGraph = <<>>) <=> noRain
            /\ ~noRain => LineCount(precipitationGraph) = precipGraphHeight
            /\ (pc = "done" /\ noRain) => ~Contains(output, DecorOpen("cyan", format))

(* C6: for every number n of hours in 1..25 the scan of the columns        *)
(* reaches the last column, so the time-axis line ends with the bold label *)
(* "<n-1>h" and nothing is printed after it.                               *)
C6_FinalLabelPrinted ==
    (AxisRendered /\ NumHours \in 1..25) =>
        EndsWith(timeOffsets,
                 DecorOpen("bold", format) \o IntToChars(NumHours - 1) \o <<"h">>
                   \o DecorClose("bold", format))

\* The visible time axis ends with the label of the last column
EndsWithFinalLabel(axis) == EndsWith(axis, IntToChars(NumHours - 1) \o <<"h">>)

\* Every visible line of both graphs is 9 + 2n characters wide
GraphWidths ==
    /\ \A lines \in {TemperatureLines} :
          \A r \in 1..Len(lines) : Len(lines[r]) = PREFIX_LEN + 2 * NumHours
    /\ precipitationGraph # <<>> =>
          \A lines \in {PrecipitationLines} :
              \A r \in 1..Len(lines) : Len(lines[r]) = PREFIX_LEN + 2 * NumHours

(* C7 as stated: for every n in 1..25 the time-axis line and every row of  *)
(* both graphs have the same visible width, 9 + 2n characters.             *)
C7_AllWidthsEqual ==
    (PrecipitationRendered /\ NumHours \in 1..25) =>
        /\ Len(AxisLine) = PREFIX_LEN + 2 * NumHours
        /\ GraphWidths

(* C7 as amended: for every n in 1..25 every row of both graphs is 9 + 2n  *)
(* characters wide, and so is the time-axis line unless it ends with the   *)
(* label of the last column and that label has a two-digit offset          *)
(* (n >= 11): the label "<n-1>h" is then 3 characters in a 2-character     *)
(* slot and the line is 9 + 2n + 1 characters wide.                        *)
C7_WidthsUpToFinalLabel ==
    (PrecipitationRendered /\ NumHours \in 1..25) =>
        /\ \A axis \in {AxisLine} :
              Len(axis) = PREFIX_LEN + 2 * NumHours
                            + (IF EndsWithFinalLabel(axis) /\ NumHours - 1 >= 10
                               THEN 1 ELSE 0)
        /\ GraphWidths

C7_Witness ==
    /\ PrecipitationRendered
    /\ NumHours = 25
    /\ precipitationGraph # <<>>
    /\ Len(AxisLine) = 60
    /\ Len(TemperatureLines[8]) = 59

(* C8: whenever the precipitation graph is rendered (maxP > 0) exactly one *)
(* of its 5 rows carries the label "R <round(maxP*100)>%" in place of the  *)
(* blank prefix, the row round(maxP * 5); every other row has the blank    *)
(* 9-character prefix.                                                     *)
C8_OneLabelledRow ==
    (PrecipitationRendered /\ NumHours >= 1 /\ precipitationGraph # <<>>) =>
        \A lines \in {PrecipitationLines} :
        \A maxP \in {MaxOf([k \in 1..NumHours |->
                              forecast.hourly[k].precipitation_probability])} :
            maxP > 0 =>
                LET label == <<"R", " ">> \o IntToChars(RoundDiv(maxP * 100, ProbUnit))
                                \o <<"%">>
                    labelled == { r \in 1..Len(lines) :
                                    Contains(SubSeq(lines[r], 1, PREFIX_LEN), label) }
                IN  /\ Len(lines) = precipGraphHeight
                    /\ labelled = {RoundDiv(maxP * precipGraphHeight, ProbUnit)}
                    /\ \A r \in 1..Len(lines) :
                          r \notin labelled => SubSeq(lines[r], 1, PREFIX_LEN) = PREFIX

\* What is left of a decorated text once the marks added by the decorations
\* ds (innermost first) are taken off again, outermost first
RECURSIVE RemoveAdded(_, _, _)
RemoveAdded(t, ds, f) ==
    IF ds = <<>> THEN t
    ELSE LET d     == ds[Len(ds)]
             open  == DecorOpen(d, f)
             close == DecorClose(d, f)
         IN  IF /\ Len(t) >= Len(open) + Len(close)
                /\ StartsWith(t, open)
                /\ EndsWith(t, close)
             THEN RemoveAdded(SubSeq(t, Len(open) + 1, Len(t) - Len(close)),
                              SubSeq(ds, 1, Len(ds) - 1), f)
             ELSE <<"unmatched">>

(* C9: for every text s and either format, cyan(bold(s)) and bold(cyan(s)) *)
(* both contain s as a contiguous substring, and taking off the opening    *)
(* and closing marks that bold and cyan added leaves exactly s.            *)
C9_DecorationsNest ==
    (pc = "decorate" /\ applied \in {<<"bold", "cyan">>, <<"cyan", "bold">>}) =>
        /\ Contains(text, src)
        /\ RemoveAdded(text, applied, format) = src
        /\ Len(text) = Len(src)
              + Len(DecorOpen("bold", format)) + Len(DecorClose("bold", format))
              + Len(DecorOpen("cyan", format)) + Len(DecorClose("cyan", format))

C9_Witness ==
    /\ pc = "decorate"
    /\ applied = <<"bold", "cyan">>
    /\ format = Tty
    /\ src = <<"m", ESC, "[">>
    /\ RemoveAdded(text, applied, format) = src

\* The other format
Other(f) == IF f = Html THEN Tty ELSE Html

\* The opening and closing wrappers of render, as the lines they occupy
OpeningLines(f) ==
    IF f = Html THEN << <<"<", "h", "t", "m", "l", ">", "<", "p", "r", "e", ">">> >>
    ELSE << <<>>, <<>> >>
ClosingLines(f) ==
    IF f = Html
    THEN << <<"<", "/", "p", "r", "e", ">", "<", "/", "h", "t", "m", "l", ">">> >>
    ELSE << >>

\* The visible lines of an output between its wrappers; the output ends with
\* the closing wrapper and the two empty lines of the trailing newlines
ReportBody(out, f) ==
    LET lines  == SplitLines(out)
        first  == Len(OpeningLines(f)) + 1
        last   == Len(lines) - 2 - Len(ClosingLines(f))
    IN  IF /\ last >= first - 1
           /\ SubSeq(lines, 1, first - 1) = OpeningLines(f)
           /\ SubSeq(lines, last + 1, Len(lines)) = ClosingLines(f) \o << <<>>, <<>> >>
        THEN StripLines(SubSeq(lines, first, last), f)
        ELSE << <<"unwrapped">> >>

(* C10: the tty and the html output of render for one Forecast differ only *)
(* in the decoration and in the wrappers: without the wrappers and without *)
(* the bold and cyan marks both are the same lines of the same characters. *)
C10_FormatsAgree ==
    pc = "done" =>
        \A body \in {ReportBody(output, format)} :
            /\ body # << <<"unwrapped">> >>
            /\ body = ReportBody(render(forecast, Other(format)), Other(format))

C10_Witness ==
    /\ pc = "done"
    /\ format = Tty
    /\ Len(forecast.alerts) = 2
    /\ precipitationGraph # <<>>
    /\ Len(ReportBody(output, format)) = 18

(* C11: render is deterministic and free of side effects: no step of a     *)
(* rendering changes the Forecast (alerts, summaries, temperatures, the    *)
(* hourly sequence, its length and order) or the format, and the string a  *)
(* rendering returns is the one render gives for that Forecast and format. *)
C11_RenderLeavesForecast ==
    [][/\ pc \in {"timeOffsets", "temperatureGraph", "precipitationGraph", "compose"}
            => (forecast' = forecast /\ format' = format)
       /\ (pc = "compose" /\ pc' = "done") => output' = render(forecast', format')]_vars

C11_Witness ==
    /\ pc = "done"
    /\ NumHours = 25
    /\ Len(forecast.alerts) = 2
    /\ forecast = transformDarkSkyForecast(payload)
    /\ output = render(forecast, format)

\* The number of lines of the Alerts section of the current Forecast
AlertLines == IF Len(forecast.alerts) # 0 THEN 1 ELSE 0

(* C12: the lines of every output are, in this order and each once: the    *)
(* opening wrapper, the Alerts line (only when there are alerts), the      *)
(* "Now:" line, the "Later:" line and one line without visible characters, *)
(* the time-axis line, the 8 lines of the temperature graph, the 0 or 5    *)
(* lines of the precipitation graph, the closing wrapper (html only) and   *)
(* the two empty lines of the trailing newlines; an empty precipitation    *)
(* graph contributes no line.                                              *)
C12_SectionsInOrder ==
    pc = "done" =>
        \A lines \in {SplitLines(output)} :
        \A at \in {Len(OpeningLines(format)) + AlertLines} :
        \A rain \in {LineCount(precipitationGraph)} :
            /\ rain \in {0, precipGraphHeight}
            /\ Len(lines) = at + 4 + (tempGraphHeight + 1) + rain
                               + Len(ClosingLines(format)) + 2
            /\ SubSeq(lines, 1, Len(OpeningLines(format))) = OpeningLines(format)
            /\ AlertLines = 1 =>
                  StartsWith(Strip(lines[at], format), <<"A", "l", "e", "r", "t", "s", ":">>)
            /\ StartsWith(Strip(lines[at + 1], format), <<"N", "o", "w", ":">>)
            /\ StartsWith(Strip(lines[at + 2], format), <<"L", "a", "t", "e", "r", ":">>)
            /\ Strip(lines[at + 3], format) = <<>>
            /\ <<lines[at + 4]>> = SplitLines(timeOffsets)
            /\ SubSeq(lines, at + 5, at + 4 + tempGraphHeight + 1)
                  = SplitLines(temperatureGraph)
            /\ rain # 0 =>
                  SubSeq(lines, at + 5 + tempGraphHeight + 1,
                         at + 4 + tempGraphHeight + 1 + rain)
                     = SplitLines(precipitationGraph)
            /\ SubSeq(lines, at + 5 + tempGraphHeight + 1 + rain, Len(lines))
                  = ClosingLines(format) \o << <<>>, <<>> >>

C12_Witness ==
    /\ pc = "done"
    /\ format = Html
    /\ forecast.alerts = <<>>
    /\ precipitationGraph = <<>>
    /\ NumHours = 25
    /\ Len(SplitLines(output)) = 16

\* The titles of one or two alerts joined by ", "
JoinedTitles(alerts) ==
    IF Len(alerts) = 1 THEN alerts[1]
    ELSE alerts[1] \o <<",", " ">> \o alerts[2]

(* C13: the output holds an "Alerts:" line if and only if forecast.alerts  *)
(* is non-empty, which it is when the payload has a non-empty alerts       *)
(* collection; the line is the bold decoration of "Alerts:  " followed by  *)
(* the titles joined by ", " in their order, and for the single alert      *)
(* "Flood Watch" it reads exactly "Alerts:  Flood Watch".                  *)
C13_AlertsLine ==
    pc = "done" =>
        \A lines \in {SplitLines(output)} :
        \A found \in {{k \in 1..Len(lines) :
                          Contains(lines[k], <<"A", "l", "e", "r", "t", "s", ":">>)}} :
            /\ forecast.alerts =
                  IF payload.alerts.defined
                  THEN [k \in 1..Len(payload.alerts.items) |-> payload.alerts.items[k].title]
                  ELSE <<>>
            /\ (found # {}) <=> (Len(forecast.alerts) # 0)
            /\ Len(forecast.alerts) # 0 =>
                  /\ found = {Len(OpeningLines(format)) + 1}
                  /\ \A k \in found :
                        lines[k] = DecorOpen("bold", format)
                                      \o <<"A", "l", "e", "r", "t", "s", ":", " ", " ">>
                                      \o JoinedTitles(forecast.alerts)
                                      \o DecorClose("bold", format)
            /\ forecast.alerts = <<FloodWatch.title>> =>
                  \A k \in found :
                      Strip(lines[k], format) =
                         <<"A", "l", "e", "r", "t", "s", ":", " ", " ",
                           "F", "l", "o", "o", "d", " ", "W", "a", "t", "c", "h">>

C13_Witness ==
    /\ pc = "done"
    /\ format = Tty
    /\ forecast.alerts = <<FloodWatch.title, WindAdvisory.title>>
    /\ SplitLines(output)[3] =
          <<ESC, "[", "1", "m", "A", "l", "e", "r", "t", "s", ":", " ", " ",
            "F", "l", "o", "o", "d", " ", "W", "a", "t", "c", "h", ",", " ",
            "W", "i", "n", "d", " ", "A", "d", "v", "i", "s", "o", "r", "y",
            ESC, "[", "0", "m">>

(* C14: for an upstream hourly series of m entries the Forecast has the    *)
(* first min(m, 25) of them in their order, entry i made of the            *)
(* temperature, the apparent temperature (as feels_like) and the           *)
(* precipitation probability of upstream entry i; it never has more than   *)
(* 25 entries.                                                             *)
C14_FirstTwentyFiveHours ==
    pc # "transform" =>
        \A upstream \in {payload.hourly.data} :
            /\ NumHours = (IF Len(upstream) <= 25 THEN Len(upstream) ELSE 25)
            /\ NumHours <= 25
            /\ \A i \in 1..NumHours :
                  /\ forecast.hourly[i].temperature = upstream[i].temperature
                  /\ forecast.hourly[i].feels_like = upstream[i].apparentTemperature
                  /\ forecast.hourly[i].precipitation_probability
                        = upstream[i].precipProbability

C14_Witness ==
    /\ pc = "timeOffsets"
    /\ Len(payload.hourly.data) = 27
    /\ NumHours = 25
    /\ payload.hourly.data[1].temperature # payload.hourly.data[1].apparentTemperature
    /\ forecast.hourly[25].feels_like = payload.hourly.data[25].apparentTemperature

(* C16: for a uniform temperature series (n >= 1 hours, every feels_like   *)
(* the same, so maxT = minT) the temperature graph is not rendered from an *)
(* undefined scale value: the scaled height of every column is a defined   *)
(* integer in 0..7.                                                        *)
C16_UniformSeriesScaled ==
    (TemperatureRendered /\ NumHours >= 1
        /\ MaxOf(Temps(forecast)) = MinOf(Temps(forecast))) =>
        \A scaled \in {ScaledTemps(forecast)} :
            \A k \in 1..NumHours :
                /\ scaled[k].kind = "finite"
                /\ scaled[k].val \in 0..tempGraphHeight

\* The payload received lacks a block that transformDarkSkyForecast reads
PayloadIncomplete == payload # NoPayload /\ payload.missing # {}

(* C15: when the payload received lacks the current conditions or the      *)
(* hourly series, transformDarkSkyForecast throws and no Forecast is made; *)
(* the error it threw is the one the caller answers with, and nothing is   *)
(* asked again: the calls stay the one geocoding call and the one forecast *)
(* call, and the request is over.                                          *)
C15_IncompletePayloadThrows ==
    PayloadIncomplete =>
        /\ error.thrown
        /\ error = transformError(payload)
        /\ EndsWith(error.message,
                    <<" ", "o", "f", " ", "u", "n", "d", "e", "f", "i", "n", "e", "d">>)
        /\ forecast = NoForecast
        /\ pc = "idle" /\ output = <<>>
        /\ step = "done"
        /\ response.ended = <<error.message>>
        /\ Len(calls) = 2 /\ calls[1].to = "geocode" /\ calls[2].to = "forecast"

C15_Witness ==
    /\ step = "done"
    /\ payload.missing = {"hourly"}
    /\ error.message =
          <<"C", "a", "n", "n", "o", "t", " ", "r", "e", "a", "d", " ",
            "p", "r", "o", "p", "e", "r", "t", "y", " ", "'",
            "s", "u", "m", "m", "a", "r", "y", "'", " ", "o", "f", " ",
            "u", "n", "d", "e", "f", "i", "n", "e", "d">>
    /\ response.ended = <<error.message>>
    /\ Len(calls) = 2

\* The literal texts of the two validation errors
MissingZipcodeText ==
    <<"M", "i", "s", "s", "i", "n", "g", " ", "z", "i", "p", "c", "o", "d", "e", " ",
      "p", "a", "r", "a", "m", "e", "t", "e", "r">>
MultipleZipcodesText ==
    <<"C", "a", "n", "n", "o", "t", " ", "s", "p", "e", "c", "i", "f", "y", " ",
      "m", "u", "l", "t", "i", "p", "l", "e", " ", "z", "i", "p", "c", "o", "d", "e", "s">>

\* The request has exactly one zipcode, and it is not empty
ZipcodeValid == request.zipcode.kind = "string" /\ request.zipcode.value # <<>>

(* C17: whenever validation, geocoding, fetching or normalisation throws   *)
(* or rejects, the handler answers 500 with the message of that error as   *)
(* the body; a request that ends without a Forecast ended with an error,   *)
(* and a step that ends a request without a report is a step that caught   *)
(* an error.                                                               *)
C17_ErrorsAnswered500 ==
    /\ error.thrown =>
          /\ step = "done"
          /\ response = [statusCodes |-> <<500>>, ended |-> <<error.message>>]
    /\ (step = "done" /\ (forecast = NoForecast \/ ~ZipcodeValid)) => error.thrown
    /\ (step = "done" /\ ~error.thrown) => response.statusCodes = <<200>>

C17_Witness ==
    /\ step = "done"
    /\ error.message = GeocodeUrl(OtherZipcode)
                          \o <<":", " ", "4", "0", "1", " ">> \o Unauthorized
    /\ response = [statusCodes |-> <<500>>, ended |-> <<error.message>>]

(* C18: the handler writes at most one status and ends the response at     *)
(* most once, and when the request is over exactly one of each: 200 with   *)
(* the complete output of render as the body, or 500 with the message of   *)
(* the error; 200 is never written on a request that fails, a failing      *)
(* request emits no report text, and once 200 is written the handler is    *)
(* rendering the report or has ended the response with it.                 *)
C18_OneStatusOneEnd ==
    /\ Len(response.statusCodes) <= 1
    /\ Len(response.ended) <= 1
    /\ response.statusCodes = <<200>> => (~error.thrown /\ forecast # NoForecast)
    /\ error.thrown => (output = <<>> /\ pc = "idle")
    /\ step # "done" => response.ended = <<>>
    /\ response.statusCodes = <<200>> =>
          \/ step = "render" /\ pc \in {"timeOffsets", "temperatureGraph",
                                        "precipitationGraph", "compose", "done"}
          \/ step = "done" /\ pc = "done"
    /\ step = "done" =>
          \/ /\ response.statusCodes = <<200>>
             /\ response.ended = <<render(forecast, format)>>
          \/ /\ response.statusCodes = <<500>>
             /\ response.ended = <<error.message>>
             /\ error.thrown

C18_Witness ==
    /\ step = "done"
    /\ request.zipcode = OneZipcode(OtherZipcode)
    /\ NumHours = 25
    /\ response.statusCodes = <<200>>
    /\ response.ended = <<output>>
    /\ EndsWith(output, <<"<", "/", "h", "t", "m", "l", ">", LF, LF>>)

(* C19: a request without a zipcode parameter, or with an empty one, is    *)
(* answered 500 "Missing zipcode parameter", and a request with several    *)
(* zipcode parameters 500 "Cannot specify multiple zipcodes"; in both      *)
(* cases there is no geocoding call, no forecast call and no reading of    *)
(* the recorded forecast.                                                  *)
C19_ZipcodeRejected ==
    (step # "request" /\ ~ZipcodeValid) =>
        /\ step = "done"
        /\ response.statusCodes = <<500>>
        /\ response.ended =
              << IF request.zipcode.kind = "array"
                 THEN MultipleZipcodesText ELSE MissingZipcodeText >>
        /\ calls = <<>>
    /\ fixture = MEMOIZED_FORECAST
    /\ parked = NoParked
    /\ fetching = NoFetch
        /\ payload = NoPayload
        /\ forecast = NoForecast
        /\ format = NoFormat

C19_Witness ==
    /\ step = "done"
    /\ request.zipcode = ManyZipcodes(<<FixtureZipcode, OtherZipcode>>)
    /\ response = [statusCodes |-> <<500>>, ended |-> <<MultipleZipcodesText>>]
    /\ calls = <<>>
    /\ fixture = MEMOIZED_FORECAST
    /\ parked = NoParked
    /\ fetching = NoFetch

\* The Accept values of the requests that contain "html"
HtmlAccepts ==
    { Accept(<<"t", "e", "x", "t", "/", "h", "t", "m", "l", ",",
               "a", "p", "p", "l", "i", "c", "a", "t", "i", "o", "n", "/",
               "x", "h", "t", "m", "l", "+", "x", "m", "l">>),
      Accept(<<"a", "p", "p", "l", "i", "c", "a", "t", "i", "o", "n", "/",
               "x", "h", "t", "m", "l", "+", "x", "m", "l">>) }

(* C20: the handler renders with format html exactly when the request has  *)
(* an Accept header that contains "html"; without an Accept header, or     *)
(* with a value that does not contain it ("", "*/*", "text/plain",         *)
(* "TEXT/HTML"), it renders with format tty.                               *)
C20_HtmlIffAccepted ==
    (step # "request" /\ ZipcodeValid) =>
        \A html \in {request.accept \in HtmlAccepts} :
            /\ html <=> (request.accept.defined
                           /\ \E k \in 1..(Len(request.accept.value) - 3) :
                                 SubSeq(request.accept.value, k, k + 3)
                                    = <<"h", "t", "m", "l">>)
            /\ format = (IF html THEN Html ELSE Tty)
            /\ response.ended # <<>> /\ ~error.thrown =>
                  /\ response.ended = <<render(forecast, IF html THEN Html ELSE Tty)>>
                  /\ html <=> StartsWith(response.ended[1],
                                         <<"<", "h", "t", "m", "l", ">", "<", "p", "r", "e", ">">>)
                  /\ ~html <=> StartsWith(response.ended[1], <<LF, LF>>)

C20_Witness ==
    /\ step = "done"
    /\ request.accept = Accept(<<"a", "p", "p", "l", "i", "c", "a", "t", "i", "o", "n", "/",
                                 "x", "h", "t", "m", "l", "+", "x", "m", "l">>)
    /\ format = Html
    /\ response.statusCodes = <<200>>
    /\ StartsWith(response.ended[1], <<"<", "h", "t", "m", "l", ">", "<", "p", "r", "e", ">">>)

\* The integer nearest to num / unit, a half going up
Rounded(num, unit) ==
    CHOOSE r \in -1000..1000 : (2 * r - 1) * unit <= 2 * num /\ 2 * num < (2 * r + 1) * unit

\* A 9-character label: blanks, the letter, a blank, a text, "F" and 2 blanks
IsLabel(label, letter) ==
    /\ Len(label) = PREFIX_LEN
    /\ \E j \in 1..(PREFIX_LEN - 4) :
          /\ \A k \in 1..(j - 1) : label[k] = " "
          /\ label[j] = letter
          /\ label[j + 1] = " "
    /\ SubSeq(label, PREFIX_LEN - 2, PREFIX_LEN) = <<"F", " ", " ">>

\* The 9-character label of letter and the whole number r
LabelOf(letter, r) ==
    SliceFrom(<<" ", " ", " ", " ", letter, " ">> \o IntToChars(r) \o <<"F", " ", " ">>,
              -PREFIX_LEN)

(* C24: in the temperature graph the first row, and no other of the 7      *)
(* scaled rows, starts with the bold label "H <round(maxT)>F"; the other   *)
(* scaled rows start with 9 blanks; the 8th row starts with the bold label *)
(* "L <round(minT)>F" and is filled in every hour column, whatever the     *)
(* series.                                                                 *)
C24_HighAndLowLabels ==
    TemperatureRendered =>
        \A raw \in {SplitLines(temperatureGraph)} :
        \A high \in {SubSeq(Strip(raw[1], format), 1, PREFIX_LEN)} :
        \A low \in {SubSeq(Strip(raw[tempGraphHeight + 1], format), 1, PREFIX_LEN)} :
            /\ Len(raw) = tempGraphHeight + 1
            /\ IsLabel(high, "H")
            /\ StartsWith(raw[1], bold(high, format))
            /\ \A k \in 2..tempGraphHeight :
                  /\ StartsWith(raw[k], PREFIX)
                  /\ raw[k] = Strip(raw[k], format)
            /\ IsLabel(low, "L")
            /\ raw[tempGraphHeight + 1]
                  = bold(low, format) \o Concat([c \in 1..NumHours |-> Filled])
            /\ NumHours >= 1 =>
                  /\ high = LabelOf("H", Rounded(MaxOf(Temps(forecast)), TempUnit))
                  /\ low = LabelOf("L", Rounded(MinOf(Temps(forecast)), TempUnit))

\* The visible characters of s that no cyan decoration encloses; on a
\* terminal the reset sequence ends the cyan
OutsideCyan(s, f, inside) ==
    LET starts == { b \in 1..Len(s) : s[b] \in {"<", ESC} }
        At(mark) ==
            { b \in starts : /\ b + Len(mark) - 1 <= Len(s)
                             /\ SubSeq(s, b, b + Len(mark) - 1) = mark }
        opens == At(DecorOpen("cyan", f))
        closes == At(DecorClose("cyan", f))
        marked ==
            UNION { { b + d : d \in 0..(Len(mark) - 1), b \in At(mark) } :
                      mark \in {DecorOpen("cyan", f), DecorClose("cyan", f),
                                DecorOpen("bold", f), DecorClose("bold", f)} }
        Last(places, i) ==
            IF \A b \in places : b > i THEN 0
            ELSE CHOOSE b \in places : b <= i /\ \A c \in places : c <= i => c <= b
        InCyan(i) ==
            IF Last(opens, i) = 0 /\ Last(closes, i) = 0
            THEN inside
            ELSE Last(opens, i) > Last(closes, i)
        Outside(i) == i \notin marked /\ ~InCyan(i)
        places == SelectSeq([i \in 1..Len(s) |-> i], Outside)
    IN  [k \in 1..Len(places) |-> s[places[k]]]

(* C25 as stated: in every row of a rendered precipitation graph the whole *)
(* row, the 9-character prefix (label or blank) and all the marker cells,  *)
(* lies inside the cyan decoration.                                        *)
C25_WholeRowInCyan ==
    (PrecipitationRendered /\ precipitationGraph # <<>>) =>
        \A raw \in {SplitLines(precipitationGraph)} :
            \A k \in 1..Len(raw) : OutsideCyan(raw[k], format, FALSE) = <<>>

(* C25 as amended: in every row of a rendered precipitation graph the      *)
(* marker cells lie inside one cyan decoration, and so does the label of   *)
(* the row that has one; the blank prefix of the other rows is the 9       *)
(* blanks before the cyan decoration and is not decorated.                 *)
C25_MarkersAndLabelInCyan ==
    (PrecipitationRendered /\ precipitationGraph # <<>>) =>
        \A raw \in {SplitLines(precipitationGraph)} :
            \A k \in 1..Len(raw) :
                \A visible \in {Strip(raw[k], format)} :
                \A markers \in {SubSeq(visible, PREFIX_LEN + 1, Len(visible))} :
                    /\ Len(visible) = PREFIX_LEN + 2 * NumHours
                    /\ EndsWith(raw[k], DecorOpen("cyan", format) \o markers
                                           \o DecorClose("cyan", format))
                    /\ IF SubSeq(visible, 1, PREFIX_LEN) = PREFIX
                       THEN /\ StartsWith(raw[k], PREFIX \o DecorOpen("cyan", format))
                            /\ OutsideCyan(raw[k], format, FALSE) = PREFIX
                       ELSE /\ StartsWith(raw[k], DecorOpen("cyan", format)
                                                    \o DecorOpen("bold", format))
                            /\ OutsideCyan(raw[k], format, FALSE) = <<>>

C25_Witness ==
    /\ PrecipitationRendered
    /\ format = Tty
    /\ NumHours = 25
    /\ \E raw \in {SplitLines(precipitationGraph)} :
          /\ Len(raw) = precipGraphHeight
          /\ OutsideCyan(raw[1], format, FALSE) = PREFIX
          /\ \E k \in 2..precipGraphHeight :
                /\ OutsideCyan(raw[k], format, FALSE) = <<>>
                /\ Contains(raw[k], <<"R", " ">>)

\* The 4 characters of the time-axis label of column k
AxisLabel(k) ==
    CASE k = 0  -> <<"0", "h", " ", " ">>
      [] k = 6  -> <<"6", "h", " ", " ">>
      [] k = 12 -> <<"1", "2", "h", " ">>
      [] k = 18 -> <<"1", "8", "h", " ">>
      [] k = 24 -> <<"2", "4", "h", " ">>

(* C26: in the time-axis line a label other than the final one is printed  *)
(* only at a 0-based column k that is a multiple of 6; it is the 4         *)
(* characters "<k>h" padded with blanks, it fills the slots of columns k   *)
(* and k + 1 and starts at visible position 9 + 2k; every column that is   *)
(* not labelled, not covered by a label and not the last one is 2 blanks,  *)
(* so no label overlaps or shifts the slot of another column.              *)
C26_AxisLabelsOnSixes ==
    (AxisRendered /\ NumHours >= 1) =>
        \A axis \in {AxisLine} : \A n \in {NumHours} :
            /\ Len(axis) >= PREFIX_LEN + 2 * (n - 1)
            /\ SubSeq(axis, 1, PREFIX_LEN) = PREFIX
            /\ \A c \in 0..(n - 2) :
                  /\ c % 6 = 0 =>
                        /\ Len(axis) >= PREFIX_LEN + 2 * c + 4
                        /\ SubSeq(axis, PREFIX_LEN + 2 * c + 1, PREFIX_LEN + 2 * c + 4)
                              = AxisLabel(c)
                  /\ c % 6 \notin {0, 1} =>
                        /\ Len(axis) >= PREFIX_LEN + 2 * c + 2
                        /\ SubSeq(axis, PREFIX_LEN + 2 * c + 1, PREFIX_LEN + 2 * c + 2)
                              = Blank
            /\ \A at \in 1..(PREFIX_LEN + 2 * (n - 1)) :
                  axis[at] # " " =>
                      \E c \in 0..(n - 2) :
                          /\ c % 6 = 0
                          /\ at \in (PREFIX_LEN + 2 * c + 1)..(PREFIX_LEN + 2 * c + 3)
            /\ \A c \in 0..(n - 2) :
                  c % 6 = 0 => Contains(timeOffsets, bold(AxisLabel(c), format))

C26_Witness ==
    /\ AxisRendered
    /\ NumHours = 20
    /\ format = Html
    /\ SubSeq(AxisLine, PREFIX_LEN + 37, PREFIX_LEN + 40) = <<"1", "8", "h", " ">>
    /\ SubSeq(AxisLine, PREFIX_LEN + 5, PREFIX_LEN + 12) = Repeat(" ", 8)
    /\ Len(AxisLine) = PREFIX_LEN + 40

\* round(p * 5) >= i for the probability num / ProbUnit: p * 5 >= i - 1/2
BarReaches(num, i) == 10 * num >= (2 * i - 1) * ProbUnit

(* C27: in a rendered precipitation graph (probabilities in [0,1]) row i   *)
(* (1..5 from the top) is filled exactly in the columns where              *)
(* round(p * 5) >= i, so a column filled at row i is filled at every row   *)
(* above it; no column is filled below the row round(maxP * 5), and every  *)
(* column holding the maximum is filled in exactly the rows                *)
(* 1..round(maxP * 5).                                                     *)
C27_BarsHangFromTop ==
    (PrecipitationRendered /\ precipitationGraph # <<>> /\ NumHours >= 1) =>
        \A lines \in {PrecipitationLines} :
        \A probs \in {[k \in 1..NumHours |-> forecast.hourly[k].precipitation_probability]} :
        \A top \in {Rounded(MaxOf(probs) * precipGraphHeight, ProbUnit)} :
            /\ Len(lines) = precipGraphHeight
            /\ \A k \in 1..NumHours : probs[k] \in 0..ProbUnit
            /\ top \in 0..precipGraphHeight
            /\ \A k \in 1..NumHours : \A i \in 1..precipGraphHeight :
                  /\ Cell(lines[i], k) = (IF BarReaches(probs[k], i) THEN Filled ELSE Blank)
                  /\ Cell(lines[i], k) = Filled =>
                        \A j \in 1..(i - 1) : Cell(lines[j], k) = Filled
                  /\ i > top => Cell(lines[i], k) = Blank
                  /\ probs[k] = MaxOf(probs) =>
                        (Cell(lines[i], k) = Filled <=> i <= top)

C27_Witness ==
    /\ PrecipitationRendered
    /\ NumHours >= 4
    /\ forecast.hourly[1].precipitation_probability * 10 = ProbUnit
    /\ forecast.hourly[2].precipitation_probability * 10 = 3 * ProbUnit
    /\ \E lines \in {PrecipitationLines} :
          /\ Cell(lines[1], 1) = Filled
          /\ Cell(lines[2], 1) = Blank
          /\ Cell(lines[2], 2) = Filled
          /\ Cell(lines[3], 2) = Blank
          /\ Cell(lines[1], 4) = Blank

(* C28: when every hourly feels_like is the same (n >= 1) the temperature  *)
(* graph still has 8 lines: none of the 7 scaled rows has a filled column, *)
(* the baseline row alone is filled, and the H and the L label show the    *)
(* same rounded temperature.                                               *)
C28_UniformSeriesDrawn ==
    (TemperatureRendered /\ NumHours >= 1
        /\ MaxOf(Temps(forecast)) = MinOf(Temps(forecast))) =>
        \A lines \in {TemperatureLines} :
        \A shown \in {IntToChars(Rounded(forecast.hourly[1].feels_like, TempUnit))} :
            /\ Len(lines) = tempGraphHeight + 1
            /\ \A i \in 1..tempGraphHeight :
                  /\ Len(RowLine(lines, i)) = PREFIX_LEN + 2 * NumHours
                  /\ \A c \in 1..NumHours : Cell(RowLine(lines, i), c) = Blank
            /\ \A c \in 1..NumHours : Cell(lines[tempGraphHeight + 1], c) = Filled
            /\ EndsWith(SubSeq(lines[1], 1, PREFIX_LEN),
                        <<"H", " ">> \o shown \o <<"F", " ", " ">>)
            /\ EndsWith(SubSeq(lines[tempGraphHeight + 1], 1, PREFIX_LEN),
                        <<"L", " ">> \o shown \o <<"F", " ", " ">>)

C28_Witness ==
    /\ TemperatureRendered
    /\ NumHours = 25
    /\ \A k \in 1..NumHours : 2 * forecast.hourly[k].feels_like = 89 * TempUnit
    /\ \E lines \in {TemperatureLines} :
          /\ SubSeq(lines[1], 1, PREFIX_LEN) = <<" ", " ", "H", " ", "4", "5", "F", " ", " ">>
          /\ SubSeq(lines[8], 1, PREFIX_LEN) = <<" ", " ", "L", " ", "4", "5", "F", " ", " ">>
          /\ lines[4] = Repeat(" ", PREFIX_LEN + 50)

\* The texts of the two service addresses and of the recorded summary
DarkSkyAddress ==
    <<"h", "t", "t", "p", "s", ":", "/", "/", "a", "p", "i", ".", "d", "a", "r", "k",
      "s", "k", "y", ".", "n", "e", "t", "/", "f", "o", "r", "e", "c", "a", "s", "t", "/">>
SmartyStreetsAddress ==
    <<"h", "t", "t", "p", "s", ":", "/", "/", "u", "s", "-", "z", "i", "p", "c", "o",
      "d", "e", ".", "a", "p", "i", ".", "s", "m", "a", "r", "t", "y", "s", "t", "r",
      "e", "e", "t", "s", ".", "c", "o", "m", "/", "l", "o", "o", "k", "u", "p", "?">>
HeavyRainLine ==
    <<"L", "a", "t", "e", "r", ":", " ", " ", " ", "H", "e", "a", "v", "y", " ",
      "r", "a", "i", "n", " ", "s", "t", "a", "r", "t", "i", "n", "g", " ",
      "t", "h", "i", "s", " ", "e", "v", "e", "n", "i", "n", "g", ".">>

\* The request asks for the zipcode of the recorded forecast
AsksFixture == ZipcodeValid /\ request.zipcode.value = <<"0", "2", "1", "3", "0">>

(* C21: for zipcode "02130" the Forecast is made from the recorded payload *)
(* and no geocoding or forecast call is issued; for any other zipcode the  *)
(* geocoding call is issued first, and the forecast call only once the     *)
(* geocoding call has resolved with a centroid, for the latitude and       *)
(* longitude it returned.                                                  *)
C21_FixtureOrGeocodeFirst ==
    (step # "request" /\ ZipcodeValid) =>
        IF AsksFixture
        THEN /\ calls = <<>>
             /\ payload = MEMOIZED_FORECAST
             /\ ~error.thrown
             /\ Len(forecast.hourly) = 25
             /\ forecast.alerts = <<FloodWatch.title, WindAdvisory.title>>
             /\ <<"L", "a", "t", "e", "r", ":", " ", " ", " ">> \o forecast.future_summary
                   = HeavyRainLine
        ELSE /\ Len(calls) \in 1..2
             /\ calls[1].to = "geocode"
             /\ StartsWith(calls[1].url, SmartyStreetsAddress)
             /\ EndsWith(calls[1].url,
                         <<"&", "z", "i", "p", "c", "o", "d", "e", "=">>
                            \o request.zipcode.value)
             /\ (step = "geocode") <=> (calls[1].outcome = "pending")
             /\ Len(calls) = 2 <=> (calls[1].outcome = "resolved"
                                        /\ calls[1].latitude # <<>>)
             /\ Len(calls) = 2 =>
                   /\ calls[2].to = "forecast"
                   /\ StartsWith(calls[2].url, DarkSkyAddress)
                   /\ EndsWith(calls[2].url,
                               <<"/">> \o calls[1].latitude \o <<",">> \o calls[1].longitude)
             /\ forecast # NoForecast =>
                   (Len(calls) = 2 /\ calls[2].outcome = "resolved")

C21_Witness ==
    /\ step = "forecast"
    /\ Len(calls) = 2
    /\ calls[1].latitude = <<"0">>
    /\ calls[1].longitude = <<"1", "2", ".", "5">>
    /\ EndsWith(calls[2].url, <<"/", "0", ",", "1", "2", ".", "5">>)
    /\ calls[2].outcome = "pending"

\* The texts of MaxBody characters at most that are values of JSON, made
\* from the grammar: a number is a run of digits, an array is "[" and "]"
\* around values with "," between them
RECURSIVE JsonLists(_, _)
JsonLists(values, n) ==
    IF n = 1
    THEN values
    ELSE values \cup { v \o <<",">> \o l : v \in values, l \in JsonLists(values, n - 1) }

RECURSIVE JsonTextsOfDepth(_)
JsonTextsOfDepth(depth) ==
    LET numbers == { [k \in 1..len |-> "1"] : len \in 1..MaxBody }
    IN  IF depth = 0
        THEN numbers
        ELSE { t \in numbers \cup {<<"[", "]">>}
                      \cup { <<"[">> \o l \o <<"]">> :
                               l \in JsonLists(JsonTextsOfDepth(depth - 1), MaxBody \div 2) } :
                 Len(t) <= MaxBody }

JsonTexts == JsonTextsOfDepth(MaxBody \div 2)

(* C22: the promise of fetch settles at most once; it is resolved only     *)
(* when the status is 200, the response has ended and everything read is   *)
(* a text of JSON, with the value of that text; a status other than 200,   *)
(* an error event, or an end with a text that is not JSON leave it         *)
(* rejected with an error; and after a status other than 200 it stays      *)
(* rejected with the error of the status whatever events follow.           *)
C22_FetchSettlesOnce ==
    [][/\ fetching.promise.state # "pending" => fetching'.promise = fetching.promise
       /\ \A f \in {fetching'} :
             /\ f.promise.state = "resolved" =>
                   /\ f.statusCode = 200
                   /\ f.ended
                   /\ ~f.failed
                   /\ f.rawData \in JsonTexts
                   /\ f.promise.value.kind \in {"number", "array"}
                   /\ f.rawData = <<"[", "1", "]">> =>
                         f.promise.value = JsonArray(<<JsonNumber(1)>>)
                   /\ f.rawData = <<"1", "1">> => f.promise.value = JsonNumber(11)
                   /\ f.rawData = <<"[", "]">> => f.promise.value = JsonArray(<<>>)
             /\ f.statusCode \notin {0, 200} =>
                   /\ f.promise.state = "rejected"
                   /\ f.promise.error.message =
                         f.url \o <<":", " ">> \o NatToChars(f.statusCode)
                               \o <<" ">> \o f.statusMessage
             /\ f.failed => f.promise.state = "rejected"
             /\ (f.ended /\ f.rawData \notin JsonTexts) => f.promise.state = "rejected"
             /\ (f.statusCode = 200 /\ f.ended /\ ~f.failed /\ f.rawData \in JsonTexts)
                   => f.promise.state = "resolved"
             /\ f.promise.state = "rejected" =>
                   (f.promise.error.thrown /\ f.promise.value = NoValue)
             /\ f.promise.state = "pending" => f.settles = 0]_vars

C22_Witness ==
    /\ fetching.statusCode = 401
    /\ fetching.rawData = <<"[", "1", "]">>
    /\ fetching.ended
    /\ fetching.settles = 2
    /\ fetching.promise.state = "rejected"

(* C23: one request issues at most one geocoding call and at most one      *)
(* forecast call; a call that failed is the last call of its request,      *)
(* which is then over (no retry); and a request starts with no call, no    *)
(* payload and no Forecast of another request, a Forecast for a zipcode    *)
(* other than "02130" being the transform of the payload that the          *)
(* request's own forecast call resolved with (no cache).                   *)
C23_NoRetryNoCache ==
    [][/\ Len(calls') <= 2
       /\ \A k \in 1..Len(calls') : calls'[k].to = (IF k = 1 THEN "geocode" ELSE "forecast")
       /\ \A k \in 1..Len(calls') :
             (calls'[k].outcome = "rejected"
                 \/ (calls'[k].to = "geocode" /\ calls'[k].outcome = "resolved"
                        /\ calls'[k].latitude = <<>>))
                => (k = Len(calls') /\ step' = "done" /\ error'.thrown
                       /\ response'.statusCodes = <<500>>)
       /\ step' = "request" =>
             (calls' = <<>> /\ payload' = NoPayload /\ forecast' = NoForecast
                 /\ response' = NoResponse)
       /\ (forecast' # NoForecast /\ request'.zipcode.value # FixtureZipcode) =>
             /\ Len(calls') = 2
             /\ calls'[2].outcome = "resolved"
             /\ forecast' = transformDarkSkyForecast(payload')
       /\ (parked' = parked /\ step' # "request" /\ calls # <<>>) =>
             (Len(calls') >= Len(calls) /\ calls'[1].url = calls[1].url)]_vars

C23_Witness ==
    /\ parked # <<>>
    /\ parked[1].step = "forecast"
    /\ step = "done"
    /\ Len(calls) = 1
    /\ calls[1].outcome = "rejected"
    /\ response.statusCodes = <<500>>

(* C29: the recorded forecast is never changed by a request, so that after *)
(* any sequence or interleaving of requests every request for "02130" is   *)
(* answered 200 with one and the same body for its format: the report of   *)
(* the recorded forecast.                                                  *)
C29_FixtureUnchanged ==
    /\ fixture = MEMOIZED_FORECAST
    /\ (step = "done" /\ AsksFixture) =>
          \A body \in {render(transformDarkSkyForecast(MEMOIZED_FORECAST),
                              IF request.accept \in HtmlAccepts
                                    \/ request.accept
                                          = Accept(<<"t", "e", "x", "t", "/", "h", "t", "m", "l">>)
                              THEN Html ELSE Tty)} :
              /\ response = [statusCodes |-> <<200>>, ended |-> <<body>>]
              /\ Contains(body, HeavyRainLine)

C29_Witness ==
    /\ step = "done"
    /\ AsksFixture
    /\ format = Tty
    /\ parked # <<>>
    /\ parked[1].request.zipcode.value = OtherZipcode
    /\ response.statusCodes = <<200>>
    /\ Contains(response.ended[1], HeavyRainLine)

\* The request has been answered
Answered == response.ended # <<>>

\* The upstream call in flight has emitted its end or an error
Emitted == fetching.ended \/ fetching.failed

=============================================================================
